---- MODULE Spec2Model ----
(***************************************************************************)
(* Input layer of powmonk/sdl_game (src/sdl_steam_input.cpp).              *)
(*                                                                         *)
(* The file holds two managers:                                            *)
(*   - the binding-table InputManager (lines 21-588): fields m_...,        *)
(*     init/shutdown/update(deltaTime)/processEvent, bind...Command;       *)
(*   - the delegation InputManager (lines 590-988) built from              *)
(*     KeyboardInput, MouseInput, GamepadInput and SteamDeckInput.         *)
(* Both run against the same platform (SDL): the live key-state array, the *)
(* mouse state, the list of connected controllers and the event queue.     *)
(*                                                                         *)
(* Floats are modelled as exact rationals <<numerator, denominator>> with  *)
(* a positive denominator.                                                 *)
(***************************************************************************)
EXTENDS Integers, Sequences, FiniteSets, TLC

(***************************************************************************)
(* Bounds of the model.                                                    *)
(***************************************************************************)
\* scancodes 0..MaxScancode stand for SDL's 0..SDL_NUM_SCANCODES-1
MaxScancode == 5
\* the platform event queue holds at most MaxQueue undelivered events
MaxQueue == 1
\* joystick instance ids 0..MaxInstances-1 are handed out by the platform
MaxInstances == 3
\* bind...Command is called at most MaxBinds times in a run
MaxBinds == 3
\* raw axis readings are sampled within this distance of each breakpoint
MaxWindow == 6

(***************************************************************************)
(* Program constants.                                                      *)
(***************************************************************************)
nullptr == 0
SDLK_UNKNOWN == 0
SDL_CONTROLLER_BUTTON_A == 0
SDL_CONTROLLER_BUTTON_MISC1 == 15
SDL_CONTROLLER_BUTTON_PADDLE1 == 16
SDL_CONTROLLER_BUTTON_MAX == 21
SDL_CONTROLLER_AXIS_LEFTX == 0
SDL_CONTROLLER_AXIS_RIGHTX == 2
SDL_CONTROLLER_AXIS_MAX == 6
\* enum class GamepadButton: A = 0 ... TOUCHPAD = 20, NONE = 21
GamepadButton_A == 0
GamepadButton_PADDLE1 == 16
GamepadButton_NONE == 21
\* enum class GamepadAxis: LEFTX = 0 ... TRIGGERRIGHT = 5, NONE = 6
GamepadAxis_LEFTX == 0
GamepadAxis_RIGHTX == 2
GamepadAxis_NONE == 6
\* Sint16 range of a raw axis reading
SINT16_MIN == -32768
SINT16_MAX == 32767

SDL_NUM_SCANCODES == MaxScancode + 1
Scancodes == 0 .. (SDL_NUM_SCANCODES - 1)

\* physical controllers that can be plugged in
Pads == {"padA", "padB"}
\* buttons a controller can physically report in the model
PressableButtons == {SDL_CONTROLLER_BUTTON_A, SDL_CONTROLLER_BUTTON_PADDLE1}
\* mouse buttons (SDL_BUTTON_LEFT, SDL_BUTTON_RIGHT)
MouseButtons == {1, 3}
\* the application's callbacks
Callbacks == {"c1", "c2"}
NoCommand == "none"
\* deltaTime values passed to update, in milliseconds
DeltaTimes == {16, 33}
\* raw readings of the left stick used in the frame model
AxisSamples == {SINT16_MIN, -16384, -9000, 0, 9000, 16384, SINT16_MAX}
\* deadzones the application passes to bindGamepadAxisCommand (0.25 is the default)
Deadzones == {<<0, 100>>, <<25, 100>>}

(***************************************************************************)
(* Rationals.                                                              *)
(***************************************************************************)
Abs(x) == IF x < 0 THEN -x ELSE x
RECURSIVE Gcd(_, _)
Gcd(a, b) == IF b = 0 THEN a ELSE Gcd(b, a % b)
\* lowest terms
RatNorm(r) == LET g == Gcd(Abs(r[1]), r[2]) IN <<r[1] \div g, r[2] \div g>>
RatAbs(r) == <<Abs(r[1]), r[2]>>
RatNeg(r) == <<-r[1], r[2]>>
RatSub(a, b) == RatNorm(<<a[1] * b[2] - b[1] * a[2], a[2] * b[2]>>)
\* a / b for b > 0
RatDiv(a, b) == RatNorm(<<a[1] * b[2], a[2] * b[1]>>)
RatLT(a, b) == RatNorm(a)[1] * RatNorm(b)[2] < RatNorm(b)[1] * RatNorm(a)[2]
RatGT(a, b) == RatLT(b, a)
RatLE(a, b) == ~RatLT(b, a)
RatEq(a, b) == RatNorm(a) = RatNorm(b)
\* a < b without cross-multiplying (the products leave the 32-bit range for readings
\* over 32768 and a deadzone in hundredths): compare the integer parts, then the
\* reciprocals of the fractional parts
RECURSIVE RatLess(_, _)
RatLess(a, b) ==
  IF a[1] \div a[2] # b[1] \div b[2] THEN a[1] \div a[2] < b[1] \div b[2]
  ELSE IF b[1] % b[2] = 0 THEN FALSE
  ELSE IF a[1] % a[2] = 0 THEN TRUE
  ELSE RatLess(<<b[2], b[1] % b[2]>>, <<a[2], a[1] % a[2]>>)
RatZero == <<0, 1>>
RatOne == <<1, 1>>

(***************************************************************************)
(* Partial maps (std::unordered_map).                                      *)
(***************************************************************************)
EmptyMap == <<>>
MapPut(m, k, v) == [x \in (DOMAIN m) \cup {k} |-> IF x = k THEN v ELSE m[x]]
MapGet(m, k, dflt) == IF k \in DOMAIN m THEN m[k] ELSE dflt
\* the orders in which a range-for may visit the keys of an unordered_map
Orders(S) == {s \in [1 .. Cardinality(S) -> S] : \A i, j \in 1 .. Cardinality(S) : i # j => s[i] # s[j]}

VARIABLES
  \* ---- platform (SDL) ----
  sdlKeys,          \* the key-state array SDL_GetKeyboardState points to
  sdlMouseButtons,  \* button mask SDL_GetMouseState returns
  sdlMouseX, sdlMouseY,
  joysticks,        \* connected controllers, device index i is joysticks[i+1]
  padInstance,      \* instance id of each connected controller
  nextInstance,     \* next instance id the platform hands out
  openable,         \* controllers SDL_GameControllerOpen succeeds on
  padButtons,       \* buttons held on each controller
  padAxis,          \* raw left-stick X reading of each controller
  eventQueue,       \* events not yet returned by SDL_PollEvent
  \* ---- binding-table InputManager ----
  initState,        \* "constructed", "ok" (init returned true), "failed", "fault" (the process died)
  m_gameController, m_gameControllerIndex, m_activeInputMethod,
  m_currentKeyboardState, m_previousKeyState, m_keyCommands,
  m_currentMouseState, m_previousMouseState,
  m_mouseX, m_mouseY, m_mouseDeltaX, m_mouseDeltaY, m_mouseCommands,
  m_currentGamepadButtonState, m_previousGamepadButtonState,
  m_gamepadAxisValues, m_gamepadButtonCommands, m_gamepadAxisCommands,
  m_touchPoints, m_touchCommand,
  \* ---- delegation InputManager ----
  initialized, isSteamDeckHardware, keyboard, mouse, gamepad, steamDeck,
  \* ---- observation ----
  calls,            \* callbacks invoked by the latest update, in order
  steps,            \* what the latest update did, in order: device refreshes and callbacks
  initializeReturned, \* what the latest initialize() returned: "none", "true", "false"
  phase,            \* "idle", "updated" (nothing happened since the latest update), "changed"
  frames,           \* number of updates so far, saturating at 2
  obsNow, obsPrev,  \* platform input sampled at the latest update and the one before
  snapNow, snapPrev,\* the manager's current snapshot after the latest update and the one before
  bindLog,          \* the bind...Command calls made so far
  fingers,          \* fingers on the screen by platform finger id, as the events handled so far say
  openHandles,      \* handles the binding-table manager got from SDL_GameControllerOpen and has
                    \* not passed to SDL_GameControllerClose
  \* ---- the application (main of fullscreen_game.cpp) ----
  quit              \* main's quit flag

platformVars == <<sdlKeys, sdlMouseButtons, sdlMouseX, sdlMouseY, joysticks, padInstance,
                  nextInstance, openable, padButtons, padAxis, eventQueue>>
padVars == <<joysticks, padInstance, nextInstance, openable, padButtons, padAxis>>
bindVars == <<m_keyCommands, m_mouseCommands, m_gamepadButtonCommands, m_gamepadAxisCommands,
              m_touchCommand>>
btVars == <<initState, m_gameController, m_gameControllerIndex, m_activeInputMethod,
            m_currentKeyboardState, m_previousKeyState, m_currentMouseState,
            m_previousMouseState, m_mouseX, m_mouseY, m_mouseDeltaX, m_mouseDeltaY,
            m_currentGamepadButtonState, m_previousGamepadButtonState, m_gamepadAxisValues,
            m_touchPoints>>
dgVars == <<initialized, isSteamDeckHardware, keyboard, mouse, gamepad, steamDeck>>
obsVars == <<calls, steps, initializeReturned, phase, frames, obsNow, obsPrev, snapNow, snapPrev, bindLog, fingers,
            openHandles>>
vars == <<platformVars, bindVars, btVars, dgVars, obsVars, quit>>

(***************************************************************************)
(* The platform: SDL as the managers use it.                               *)
(***************************************************************************)
Event(type, which, x, y) ==
  [type |-> type, which |-> which, x |-> x, y |-> y, xrel |-> 0, yrel |-> 0]
MotionEvent(x, y, xrel, yrel) ==
  [type |-> "SDL_MOUSEMOTION", which |-> 0, x |-> x, y |-> y, xrel |-> xrel, yrel |-> yrel]

Connected == {joysticks[i] : i \in 1 .. Len(joysticks)}
SDL_NumJoysticks == Len(joysticks)
DeviceIndices == 0 .. (SDL_NumJoysticks - 1)
\* every modelled controller has a game-controller mapping
SDL_IsGameController(i) == i \in DeviceIndices
\* a handle is the opened controller's instance id plus one; nullptr on failure
SDL_GameControllerOpen(i) ==
  IF i \in DeviceIndices /\ joysticks[i + 1] \in openable
    THEN padInstance[joysticks[i + 1]] + 1
    ELSE nullptr
SDL_GameControllerGetAttached(h) == \E p \in Connected : padInstance[p] + 1 = h
HandlePad(h) == CHOOSE p \in Connected : padInstance[p] + 1 = h
SDL_GameControllerGetButton(h, b) ==
  SDL_GameControllerGetAttached(h) /\ b \in padButtons[HandlePad(h)]
SDL_GameControllerGetAxis(h, a) ==
  IF SDL_GameControllerGetAttached(h) /\ a = SDL_CONTROLLER_AXIS_LEFTX
    THEN padAxis[HandlePad(h)]
    ELSE 0
\* SDL_BUTTON(x) is 1 << (x - 1); Bit tests mask & SDL_BUTTON(button)
SDL_BUTTON(button) == 2 ^ (button - 1)
MaskHas(mask, button) == (mask \div SDL_BUTTON(button)) % 2 = 1
\* SDL's default keymap on the modelled scancodes: 0..3 have no key,
\* SDL_SCANCODE_A (4) is 'a' (97), SDL_SCANCODE_B (5) is 'b' (98), ...
SDL_GetKeyFromScancode(sc) == IF sc < 4 THEN SDLK_UNKNOWN ELSE sc + 93
SDL_GetScancodeFromKey(key) ==
  IF \E sc \in Scancodes : SDL_GetKeyFromScancode(sc) = key /\ key # SDLK_UNKNOWN
    THEN CHOOSE sc \in Scancodes : SDL_GetKeyFromScancode(sc) = key
    ELSE 0
MappedScancodes == {sc \in Scancodes : SDL_GetKeyFromScancode(sc) # SDLK_UNKNOWN}
Keycodes == {SDL_GetKeyFromScancode(sc) : sc \in MappedScancodes}

\* the scan loop "open the first controller that opens" (init, processEvent, GamepadInput::update)
OpeningIndices == {i \in DeviceIndices : SDL_IsGameController(i) /\ SDL_GameControllerOpen(i) # nullptr}
FirstOpening == CHOOSE i \in OpeningIndices : \A j \in OpeningIndices : i <= j

(***************************************************************************)
(* Binding-table InputManager: conversions and queries.                    *)
(***************************************************************************)
GamepadButtons == 0 .. GamepadButton_NONE
GamepadAxes == 0 .. GamepadAxis_NONE
\* a conversion that passes every platform button through, paddles and touchpad too
sdlButtonToGamepadButtonAll(button) == button
sdlButtonToGamepadButton(button) ==
  IF button <= SDL_CONTROLLER_BUTTON_MISC1 THEN button ELSE GamepadButton_NONE
sdlAxisToGamepadAxis(axis) ==
  IF axis < SDL_CONTROLLER_AXIS_MAX THEN axis ELSE GamepadAxis_NONE

KeyDownIn(keys, key) == keys[SDL_GetScancodeFromKey(key)]
isKeyDown(key) == KeyDownIn(sdlKeys, key)
isKeyPressed(key) ==
  sdlKeys[SDL_GetScancodeFromKey(key)] /\ ~MapGet(m_previousKeyState, key, FALSE)
isKeyReleased(key) ==
  ~sdlKeys[SDL_GetScancodeFromKey(key)] /\ MapGet(m_previousKeyState, key, FALSE)

MouseButtonDownIn(cur, button) == MaskHas(cur, button)
isMouseButtonDown(button) == MouseButtonDownIn(m_currentMouseState, button)
isMouseButtonPressed(button) ==
  MaskHas(m_currentMouseState, button) /\ ~MaskHas(m_previousMouseState, button)
isMouseButtonReleased(button) ==
  ~MaskHas(m_currentMouseState, button) /\ MaskHas(m_previousMouseState, button)

getMousePosition == <<m_mouseX, m_mouseY>>
getMouseDelta == <<m_mouseDeltaX, m_mouseDeltaY>>

GamepadButtonDownIn(cur, button) == MapGet(cur, button, FALSE)
isGamepadButtonDown(button) == GamepadButtonDownIn(m_currentGamepadButtonState, button)
isGamepadButtonPressed(button) ==
  MapGet(m_currentGamepadButtonState, button, FALSE)
    /\ ~MapGet(m_previousGamepadButtonState, button, FALSE)
isGamepadButtonReleased(button) ==
  ~MapGet(m_currentGamepadButtonState, button, FALSE)
    /\ MapGet(m_previousGamepadButtonState, button, FALSE)
GamepadAxisValueIn(values, axis) == MapGet(values, axis, RatZero)
getGamepadAxisValue(axis) == GamepadAxisValueIn(m_gamepadAxisValues, axis)
getTouchPoints == m_touchPoints
TouchActiveIn(points) == points # <<>>
isTouchActive == TouchActiveIn(m_touchPoints)
getActiveInputMethod == m_activeInputMethod

(***************************************************************************)
(* Binding-table InputManager: the per-frame refreshes.                    *)
(***************************************************************************)
\* m_previousKeyState[key] = m_currentKeyboardState[i] != 0 for every mapped scancode i;
\* m_currentKeyboardState points into SDL's live array
updateKeyboardStateFrom(keys) ==
  [key \in (DOMAIN m_previousKeyState) \cup Keycodes |->
     IF key \in Keycodes THEN keys[SDL_GetScancodeFromKey(key)]
                         ELSE m_previousKeyState[key]]
updateKeyboardState == updateKeyboardStateFrom(sdlKeys)

\* a refresh that takes the new button mask and leaves the previous one as it was
updateMouseStateNoCopy == [previous |-> m_previousMouseState, current |-> sdlMouseButtons,
                           x |-> sdlMouseX, y |-> sdlMouseY]
\* m_previousMouseState = m_currentMouseState; m_currentMouseState = SDL_GetMouseState(..)
updateMouseState == [previous |-> m_currentMouseState, current |-> sdlMouseButtons,
                     x |-> sdlMouseX, y |-> sdlMouseY]

MappedButtons ==
  {sdlButtonToGamepadButton(i) : i \in 0 .. (SDL_CONTROLLER_BUTTON_MAX - 1)} \ {GamepadButton_NONE}
MappedAxes ==
  {sdlAxisToGamepadAxis(i) : i \in 0 .. (SDL_CONTROLLER_AXIS_MAX - 1)} \ {GamepadAxis_NONE}
\* the platform index i the refresh loop stores under a logical button or axis
SdlButtonOf(b) ==
  CHOOSE i \in 0 .. (SDL_CONTROLLER_BUTTON_MAX - 1) :
    /\ sdlButtonToGamepadButton(i) = b
    /\ \A j \in 0 .. (SDL_CONTROLLER_BUTTON_MAX - 1) : sdlButtonToGamepadButton(j) = b => j <= i
SdlAxisOf(a) ==
  CHOOSE i \in 0 .. (SDL_CONTROLLER_AXIS_MAX - 1) :
    /\ sdlAxisToGamepadAxis(i) = a
    /\ \A j \in 0 .. (SDL_CONTROLLER_AXIS_MAX - 1) : sdlAxisToGamepadAxis(j) = a => j <= i
\* the raw reading divided by 32767.0f
NormalizeAxis(raw) == <<raw, 32767>>

updateGamepadState ==
  IF m_gameController # nullptr
    THEN [previous |-> m_currentGamepadButtonState,
          current |->
            [b \in (DOMAIN m_currentGamepadButtonState) \cup MappedButtons |->
               IF b \in MappedButtons
                 THEN SDL_GameControllerGetButton(m_gameController, SdlButtonOf(b))
                 ELSE m_currentGamepadButtonState[b]],
          axes |->
            [a \in (DOMAIN m_gamepadAxisValues) \cup MappedAxes |->
               IF a \in MappedAxes
                 THEN NormalizeAxis(SDL_GameControllerGetAxis(m_gameController, SdlAxisOf(a)))
                 ELSE m_gamepadAxisValues[a]]]
    ELSE [previous |-> m_previousGamepadButtonState,
          current |-> m_currentGamepadButtonState,
          axes |-> m_gamepadAxisValues]

(***************************************************************************)
(* What the platform reports at an update, recorded for the properties.    *)
(***************************************************************************)
Observe(h) ==
  [keys |-> sdlKeys,
   mouse |-> sdlMouseButtons,
   x |-> sdlMouseX,
   y |-> sdlMouseY,
   buttons |-> IF h = nullptr THEN {}
               ELSE {b \in 0 .. (SDL_CONTROLLER_BUTTON_MAX - 1) : SDL_GameControllerGetButton(h, b)},
   axis |-> IF h = nullptr THEN 0 ELSE SDL_GameControllerGetAxis(h, SDL_CONTROLLER_AXIS_LEFTX),
   open |-> h # nullptr,
   deltaTime |-> 0]
NoObservation == [keys |-> [sc \in Scancodes |-> FALSE], mouse |-> 0, x |-> 0, y |-> 0,
                  buttons |-> {}, axis |-> 0,
                  open |-> FALSE, deltaTime |-> 0]
Call(cat, id, cb, payload) == [cat |-> cat, id |-> id, cb |-> cb, payload |-> payload]
Seconds(deltaTime) == <<deltaTime, 1000>>

(***************************************************************************)
(* Binding-table InputManager: operations.                                 *)
(***************************************************************************)
\* the handles held open after SDL_GameControllerOpen returned h, after
\* SDL_GameControllerClose(h)
HandlesAfterOpen(open, h) == IF h = nullptr THEN open ELSE open \cup {h}
HandlesAfterClose(open, h) == open \ {h}

\* init(): fails when the controller subsystem cannot be initialized, else takes the
\* key-state pointer and opens the first controller that opens
InputManager_initCall(subsystemOk) ==
  /\ IF ~subsystemOk
       THEN /\ initState' = "failed"
            /\ UNCHANGED <<m_currentKeyboardState, m_gameController, m_gameControllerIndex>>
       ELSE /\ initState' = "ok"
            /\ m_currentKeyboardState' = "sdlKeys"
            /\ IF OpeningIndices # {}
                 THEN /\ m_gameController' = SDL_GameControllerOpen(FirstOpening)
                      /\ m_gameControllerIndex' = FirstOpening
                 ELSE /\ m_gameController' =
                           IF \E i \in DeviceIndices : SDL_IsGameController(i)
                             THEN nullptr ELSE m_gameController
                      /\ UNCHANGED m_gameControllerIndex
  /\ openHandles' = HandlesAfterOpen(openHandles, m_gameController')
  /\ UNCHANGED <<platformVars, bindVars, dgVars, calls, steps, initializeReturned, phase, frames, obsNow, obsPrev, snapNow,
                 snapPrev, bindLog, fingers, quit, m_activeInputMethod,
                 m_previousKeyState, m_currentMouseState, m_previousMouseState, m_mouseX,
                 m_mouseY, m_mouseDeltaX, m_mouseDeltaY, m_currentGamepadButtonState,
                 m_previousGamepadButtonState, m_gamepadAxisValues, m_touchPoints>>

\* the application's one call of init() on a manager just constructed
InputManager_init(subsystemOk) == initState = "constructed" /\ InputManager_initCall(subsystemOk)
\* init() called again: the subsystem is initialized already when an earlier call succeeded
InputManager_initAgain ==
  /\ initState # "constructed"
  /\ \E subsystemOk \in BOOLEAN : /\ initState = "ok" => subsystemOk
                                  /\ InputManager_initCall(subsystemOk)

\* shutdown(), also run by the destructor: closes the handle if there is one
InputManager_shutdown ==
  /\ m_gameController' = nullptr
  /\ openHandles' = IF m_gameController # nullptr
                      THEN HandlesAfterClose(openHandles, m_gameController)
                      ELSE openHandles
  /\ phase' = "changed"
  /\ UNCHANGED <<platformVars, bindVars, dgVars, calls, steps, initializeReturned, frames, obsNow, obsPrev, snapNow,
                 snapPrev, bindLog, fingers, quit, initState, m_gameControllerIndex,
                 m_activeInputMethod, m_currentKeyboardState, m_previousKeyState,
                 m_currentMouseState, m_previousMouseState, m_mouseX, m_mouseY, m_mouseDeltaX,
                 m_mouseDeltaY, m_currentGamepadButtonState, m_previousGamepadButtonState,
                 m_gamepadAxisValues, m_touchPoints>>

\* the bindings update dispatches, one list per loop of update(), given the refreshed state
KeyCalls(order, deltaTime) ==
  [i \in 1 .. Len(order) |-> Call("KEYBOARD", order[i], m_keyCommands[order[i]], Seconds(deltaTime))]
MouseCalls(order, deltaTime) ==
  [i \in 1 .. Len(order) |-> Call("MOUSE", order[i], m_mouseCommands[order[i]], Seconds(deltaTime))]
ButtonCalls(order, deltaTime) ==
  [i \in 1 .. Len(order) |->
     Call("GAMEPAD", order[i], m_gamepadButtonCommands[order[i]], Seconds(deltaTime))]
AxisCalls(order, values) ==
  [i \in 1 .. Len(order) |->
     Call("AXIS", order[i], m_gamepadAxisCommands[order[i]][1],
          GamepadAxisValueIn(values, order[i]))]
\* a touch dispatch that invokes the command once per active point
TouchCallsPerPoint(points, deltaTime) ==
  IF m_touchCommand # NoCommand
    THEN [i \in 1 .. Len(points) |-> Call("TOUCHSCREEN", 0, m_touchCommand, Seconds(deltaTime))]
    ELSE <<>>
\* if (isTouchActive() && m_touchCommand) m_touchCommand(m_game, deltaTime)
TouchCalls(points, deltaTime) ==
  IF TouchActiveIn(points) /\ m_touchCommand # NoCommand
    THEN <<Call("TOUCHSCREEN", 0, m_touchCommand, Seconds(deltaTime))>>
    ELSE <<>>
AxisFires(values, axis) ==
  RatGT(RatAbs(GamepadAxisValueIn(values, axis)), m_gamepadAxisCommands[axis][2])
InputMethodOf(call) == IF call.cat = "AXIS" THEN "GAMEPAD" ELSE call.cat

\* an update that falls back to the keyboard when nothing was dispatched
InputMethodOrKeyboard(dispatched) ==
  IF dispatched = <<>> THEN "KEYBOARD" ELSE InputMethodOf(dispatched[Len(dispatched)])
\* m_activeInputMethod after the dispatch: every dispatch assigns it before its callback
InputMethodAfterDispatch(dispatched) ==
  IF dispatched = <<>> THEN m_activeInputMethod
  ELSE InputMethodOf(dispatched[Len(dispatched)])

\* an update that runs the touch dispatch before the four loops
DispatchOrderTouchFirst(keyCalls, mouseCalls, buttonCalls, axisCalls, touchCalls) ==
  touchCalls \o keyCalls \o mouseCalls \o buttonCalls \o axisCalls
\* the callbacks of one update() in invocation order: the key loop, the mouse loop, the
\* gamepad-button loop, the gamepad-axis loop, the touch dispatch
DispatchOrder(keyCalls, mouseCalls, buttonCalls, axisCalls, touchCalls) ==
  keyCalls \o mouseCalls \o buttonCalls \o axisCalls \o touchCalls

\* an update that runs the key, mouse and button loops before the gamepad refresh
UpdateStepsDispatchEarly(dispatched) ==
  <<"keyboard", "mouse">> \o [i \in 1 .. dispatched |-> "callback"] \o <<"gamepad">>
\* update(): updateKeyboardState(); updateMouseState(); updateGamepadState(); then the
\* five dispatch loops invoke the callbacks
UpdateSteps(dispatched) ==
  <<"keyboard", "mouse", "gamepad">> \o [i \in 1 .. dispatched |-> "callback"]

\* update() where the reads m_currentKeyboardState[i] yield keys[i]
InputManager_updateReading(deltaTime, keys) ==
  /\ LET ms == updateMouseState
         gs == updateGamepadState
         keyHits == {k \in DOMAIN m_keyCommands : KeyDownIn(keys, k)}
         mouseHits == {b \in DOMAIN m_mouseCommands : MouseButtonDownIn(ms.current, b)}
         buttonHits == {b \in DOMAIN m_gamepadButtonCommands : GamepadButtonDownIn(gs.current, b)}
         axisHits == {a \in DOMAIN m_gamepadAxisCommands : AxisFires(gs.axes, a)}
     IN /\ m_previousKeyState' = updateKeyboardStateFrom(keys)
        /\ m_previousMouseState' = ms.previous
        /\ m_currentMouseState' = ms.current
        /\ m_mouseX' = ms.x
        /\ m_mouseY' = ms.y
        /\ m_previousGamepadButtonState' = gs.previous
        /\ m_currentGamepadButtonState' = gs.current
        /\ m_gamepadAxisValues' = gs.axes
        /\ \E ko \in Orders(keyHits), mo \in Orders(mouseHits),
              bo \in Orders(buttonHits), ao \in Orders(axisHits) :
             /\ calls' = DispatchOrder(KeyCalls(ko, deltaTime), MouseCalls(mo, deltaTime),
                                      ButtonCalls(bo, deltaTime), AxisCalls(ao, gs.axes),
                                      TouchCalls(m_touchPoints, deltaTime))
             /\ m_activeInputMethod' = InputMethodAfterDispatch(calls')
             /\ steps' = UpdateSteps(Len(calls'))
        /\ snapPrev' = snapNow
        /\ snapNow' = gs.current
  /\ obsPrev' = obsNow
  /\ obsNow' = [Observe(m_gameController) EXCEPT !.deltaTime = deltaTime]
  /\ frames' = IF frames < 2 THEN frames + 1 ELSE 2
  /\ phase' = "updated"
  /\ UNCHANGED <<platformVars, bindVars, dgVars, bindLog, fingers, initializeReturned, openHandles, quit, initState,
                 m_gameController,
                 m_gameControllerIndex, m_currentKeyboardState, m_mouseDeltaX, m_mouseDeltaY,
                 m_touchPoints>>

\* update() after init() returned true: the key-state pointer is SDL's live array
InputManager_update(deltaTime) ==
  /\ initState = "ok"
  /\ InputManager_updateReading(deltaTime, sdlKeys)

\* update() after init() returned false: m_currentKeyboardState is still nullptr and
\* updateKeyboardState reads m_currentKeyboardState[i] for every mapped scancode, which
\* is undefined: the process faults, or the reads yield whatever bytes are there
InputManager_updateUnset(deltaTime) ==
  /\ initState = "failed"
  /\ m_currentKeyboardState = "nullptr"
  /\ \/ /\ initState' = "fault"
        /\ phase' = "changed"
        /\ UNCHANGED <<platformVars, bindVars, dgVars, quit, calls, steps, initializeReturned, frames, obsNow, obsPrev,
                       snapNow, snapPrev, bindLog, fingers, openHandles, m_gameController,
                       m_gameControllerIndex, m_activeInputMethod, m_currentKeyboardState,
                       m_previousKeyState, m_currentMouseState, m_previousMouseState,
                       m_mouseX, m_mouseY, m_mouseDeltaX, m_mouseDeltaY,
                       m_currentGamepadButtonState, m_previousGamepadButtonState,
                       m_gamepadAxisValues, m_touchPoints>>
     \/ \E bytes \in [MappedScancodes -> BOOLEAN] :
          InputManager_updateReading(deltaTime,
            [sc \in Scancodes |-> IF sc \in MappedScancodes THEN bytes[sc] ELSE FALSE])

\* the first element of the list with this id, 0 when there is none
FirstWithId(points, id) ==
  IF \E i \in 1 .. Len(points) : points[i].id = id
    THEN CHOOSE i \in 1 .. Len(points) :
           points[i].id = id /\ \A j \in 1 .. (i - 1) : points[j].id # id
    ELSE 0
RECURSIVE EraseId(_, _)
EraseId(points, id) ==
  IF points = <<>> THEN <<>>
  ELSE IF Head(points).id = id THEN EraseId(Tail(points), id)
  ELSE <<Head(points)>> \o EraseId(Tail(points), id)
TouchPoint(id, x, y) == [id |-> id, x |-> x, y |-> y, pressed |-> TRUE]

\* static_cast<int>(event.tfinger.fingerId): an SDL_FingerID is a Sint64, written here
\* <<high, low>> for high * 2^32 + low with 0 <= low < 2^31; the cast keeps the low word
FingerIdToInt(fingerId) == fingerId[2]

\* a touch list that appends on every finger-down without looking for the id
TouchAfterAppending(points, e) ==
  LET id == FingerIdToInt(e.which)
      at == FirstWithId(points, id)
  IN
  CASE e.type = "SDL_FINGERDOWN" -> Append(points, TouchPoint(id, e.x, e.y))
    [] e.type = "SDL_FINGERUP" -> EraseId(points, id)
    [] e.type = "SDL_FINGERMOTION" ->
         IF at # 0 THEN [points EXCEPT ![at].x = e.x, ![at].y = e.y] ELSE points
    [] OTHER -> points

\* the touch list after one finger event
TouchAfter(points, e) ==
  LET id == FingerIdToInt(e.which)
      at == FirstWithId(points, id)
  IN
  CASE e.type = "SDL_FINGERDOWN" ->
         IF at # 0 THEN [points EXCEPT ![at] = TouchPoint(id, e.x, e.y)]
         ELSE Append(points, TouchPoint(id, e.x, e.y))
    [] e.type = "SDL_FINGERUP" -> EraseId(points, id)
    [] e.type = "SDL_FINGERMOTION" ->
         IF at # 0 THEN [points EXCEPT ![at].x = e.x, ![at].y = e.y] ELSE points
    [] OTHER -> points

\* the fingers on the screen after one finger event, by platform finger id
FingersAfter(down, e) ==
  CASE e.type = "SDL_FINGERDOWN" -> MapPut(down, e.which, <<e.x, e.y>>)
    [] e.type = "SDL_FINGERUP" -> [f \in (DOMAIN down) \ {e.which} |-> down[f]]
    [] e.type = "SDL_FINGERMOTION" ->
         IF e.which \in DOMAIN down THEN MapPut(down, e.which, <<e.x, e.y>>) ELSE down
    [] OTHER -> down

\* a handler that opens the device of every attach event and rescans on every detach event
ControllerAfterEager(e) ==
  CASE e.type = "SDL_CONTROLLERDEVICEADDED" ->
         [handle |-> SDL_GameControllerOpen(e.which), index |-> e.which]
    [] e.type = "SDL_CONTROLLERDEVICEREMOVED" /\ m_gameController # nullptr ->
         IF OpeningIndices # {}
           THEN [handle |-> SDL_GameControllerOpen(FirstOpening), index |-> FirstOpening]
           ELSE [handle |-> nullptr, index |-> -1]
    [] OTHER -> [handle |-> m_gameController, index |-> m_gameControllerIndex]
\* the controller handle and index after one event
ControllerAfter(e) ==
  CASE e.type = "SDL_CONTROLLERDEVICEADDED" /\ m_gameController = nullptr ->
         [handle |-> SDL_GameControllerOpen(e.which), index |-> e.which]
    [] e.type = "SDL_CONTROLLERDEVICEREMOVED" /\ m_gameController # nullptr
         /\ e.which = m_gameControllerIndex ->
         IF OpeningIndices # {}
           THEN [handle |-> SDL_GameControllerOpen(FirstOpening), index |-> FirstOpening]
           ELSE [handle |-> nullptr, index |-> -1]
    [] OTHER -> [handle |-> m_gameController, index |-> m_gameControllerIndex]

\* a method that follows presses only: releases and motion leave it as it was
InputMethodAfterPresses(e) ==
  CASE e.type = "SDL_KEYDOWN" -> "KEYBOARD"
    [] e.type = "SDL_MOUSEBUTTONDOWN" -> "MOUSE"
    [] e.type = "SDL_CONTROLLERBUTTONDOWN" -> "GAMEPAD"
    [] e.type = "SDL_FINGERDOWN" -> "TOUCHSCREEN"
    [] OTHER -> m_activeInputMethod

\* the open handles after one event: an attach event opens when no handle is held,
\* a detach event with the stored index closes the held handle and opens the rescan's
HandlesAfterEvent(e) ==
  CASE e.type = "SDL_CONTROLLERDEVICEADDED" /\ m_gameController = nullptr ->
         HandlesAfterOpen(openHandles, ControllerAfter(e).handle)
    [] e.type = "SDL_CONTROLLERDEVICEREMOVED" /\ m_gameController # nullptr
         /\ e.which = m_gameControllerIndex ->
         HandlesAfterOpen(HandlesAfterClose(openHandles, m_gameController),
                          ControllerAfter(e).handle)
    [] OTHER -> openHandles

\* the active input method after one event
InputMethodAfter(e) ==
  CASE e.type \in {"SDL_KEYDOWN", "SDL_KEYUP"} -> "KEYBOARD"
    [] e.type \in {"SDL_MOUSEMOTION", "SDL_MOUSEBUTTONDOWN", "SDL_MOUSEBUTTONUP"} -> "MOUSE"
    [] e.type \in {"SDL_CONTROLLERBUTTONDOWN", "SDL_CONTROLLERBUTTONUP",
                   "SDL_CONTROLLERAXISMOTION"} -> "GAMEPAD"
    [] e.type \in {"SDL_FINGERDOWN", "SDL_FINGERUP", "SDL_FINGERMOTION"} -> "TOUCHSCREEN"
    [] OTHER -> m_activeInputMethod

\* the application's event loop hands the next event of the queue to processEvent
InputManager_processEvent ==
  /\ eventQueue # <<>>
  /\ LET e == Head(eventQueue)
         c == ControllerAfter(e)
     IN /\ eventQueue' = Tail(eventQueue)
        /\ m_gameController' = c.handle
        /\ m_gameControllerIndex' = c.index
        /\ m_activeInputMethod' = InputMethodAfter(e)
        /\ m_touchPoints' = TouchAfter(m_touchPoints, e)
        /\ fingers' = FingersAfter(fingers, e)
        /\ openHandles' = HandlesAfterEvent(e)
        /\ IF e.type = "SDL_MOUSEMOTION"
             THEN /\ m_mouseX' = e.x
                  /\ m_mouseY' = e.y
                  /\ m_mouseDeltaX' = e.xrel
                  /\ m_mouseDeltaY' = e.yrel
             ELSE UNCHANGED <<m_mouseX, m_mouseY, m_mouseDeltaX, m_mouseDeltaY>>
  /\ phase' = "changed"
  /\ UNCHANGED <<sdlKeys, sdlMouseButtons, sdlMouseX, sdlMouseY, padVars, bindVars, dgVars,
                 calls, steps, initializeReturned, frames, obsNow, obsPrev, snapNow, snapPrev, bindLog, quit,
                 initState, m_currentKeyboardState, m_previousKeyState,
                 m_currentMouseState, m_previousMouseState, m_currentGamepadButtonState,
                 m_previousGamepadButtonState, m_gamepadAxisValues>>

\* a table that keeps the first command bound to an identifier (as map::insert would)
BindIfAbsent(table, id, command) ==
  IF id \in DOMAIN table THEN table ELSE MapPut(table, id, command)
\* table[identifier] = command
BindInto(table, id, command) == MapPut(table, id, command)
Bound(cat, id, cb, deadzone) == [cat |-> cat, id |-> id, cb |-> cb, deadzone |-> deadzone]
Logged(entry) == /\ Len(bindLog) < MaxBinds
                 /\ bindLog' = Append(bindLog, entry)
                 /\ phase' = "changed"
                 /\ UNCHANGED <<platformVars, btVars, dgVars, calls, steps, initializeReturned, frames, obsNow,
                                obsPrev, snapNow, snapPrev, fingers, openHandles, quit>>

bindKeyCommand(key, command) ==
  /\ m_keyCommands' = BindInto(m_keyCommands, key, command)
  /\ Logged(Bound("KEYBOARD", key, command, RatZero))
  /\ UNCHANGED <<m_mouseCommands, m_gamepadButtonCommands, m_gamepadAxisCommands, m_touchCommand>>
bindMouseCommand(button, command) ==
  /\ m_mouseCommands' = BindInto(m_mouseCommands, button, command)
  /\ Logged(Bound("MOUSE", button, command, RatZero))
  /\ UNCHANGED <<m_keyCommands, m_gamepadButtonCommands, m_gamepadAxisCommands, m_touchCommand>>
bindGamepadButtonCommand(button, command) ==
  /\ m_gamepadButtonCommands' = BindInto(m_gamepadButtonCommands, button, command)
  /\ Logged(Bound("GAMEPAD", button, command, RatZero))
  /\ UNCHANGED <<m_keyCommands, m_mouseCommands, m_gamepadAxisCommands, m_touchCommand>>
bindGamepadAxisCommand(axis, command, deadzone) ==
  /\ m_gamepadAxisCommands' = BindInto(m_gamepadAxisCommands, axis, <<command, deadzone>>)
  /\ Logged(Bound("AXIS", axis, command, deadzone))
  /\ UNCHANGED <<m_keyCommands, m_mouseCommands, m_gamepadButtonCommands, m_touchCommand>>
bindTouchCommand(command) ==
  /\ m_touchCommand' = command
  /\ Logged(Bound("TOUCHSCREEN", 0, command, RatZero))
  /\ UNCHANGED <<m_keyCommands, m_mouseCommands, m_gamepadButtonCommands, m_gamepadAxisCommands>>

(***************************************************************************)
(* The environment: the user and the platform.                             *)
(***************************************************************************)
Polled == /\ phase' = "changed"
          /\ UNCHANGED <<calls, steps, initializeReturned, frames, obsNow, obsPrev, snapNow, snapPrev, bindLog, fingers,
                         openHandles,
                         quit>>
RemoveAt(seq, i) == SubSeq(seq, 1, i - 1) \o SubSeq(seq, i + 1, Len(seq))
IndexOf(seq, x) == CHOOSE i \in 1 .. Len(seq) : seq[i] = x

\* a key goes down or up; the platform refreshes its array when events are pumped
KeyChange(sc) ==
  /\ Len(eventQueue) < MaxQueue
  /\ sdlKeys' = [sdlKeys EXCEPT ![sc] = ~sdlKeys[sc]]
  /\ eventQueue' = Append(eventQueue,
                          Event(IF sdlKeys[sc] THEN "SDL_KEYUP" ELSE "SDL_KEYDOWN",
                                SDL_GetKeyFromScancode(sc), 0, 0))
  /\ Polled
  /\ UNCHANGED <<sdlMouseButtons, sdlMouseX, sdlMouseY, padVars, bindVars, btVars, dgVars>>

MouseButtonChange(button) ==
  /\ Len(eventQueue) < MaxQueue
  /\ sdlMouseButtons' = IF MaskHas(sdlMouseButtons, button)
                          THEN sdlMouseButtons - SDL_BUTTON(button)
                          ELSE sdlMouseButtons + SDL_BUTTON(button)
  /\ eventQueue' = Append(eventQueue,
                          Event(IF MaskHas(sdlMouseButtons, button)
                                  THEN "SDL_MOUSEBUTTONUP" ELSE "SDL_MOUSEBUTTONDOWN",
                                button, sdlMouseX, sdlMouseY))
  /\ Polled
  /\ UNCHANGED <<sdlKeys, sdlMouseX, sdlMouseY, padVars, bindVars, btVars, dgVars>>

\* a controller is plugged in: it gets the next device index and a fresh instance id;
\* the attach event carries the device index
PadAttach(p) ==
  /\ p \notin Connected
  /\ nextInstance < MaxInstances
  /\ Len(eventQueue) < MaxQueue
  /\ joysticks' = Append(joysticks, p)
  /\ padInstance' = [padInstance EXCEPT ![p] = nextInstance]
  /\ nextInstance' = nextInstance + 1
  /\ eventQueue' = Append(eventQueue, Event("SDL_CONTROLLERDEVICEADDED", Len(joysticks), 0, 0))
  /\ Polled
  /\ UNCHANGED <<sdlKeys, sdlMouseButtons, sdlMouseX, sdlMouseY, openable, padButtons, padAxis,
                 bindVars, btVars, dgVars>>

\* a controller is unplugged: the later devices move down one index;
\* the detach event carries the instance id
PadDetach(p) ==
  /\ p \in Connected
  /\ Len(eventQueue) < MaxQueue
  /\ joysticks' = RemoveAt(joysticks, IndexOf(joysticks, p))
  /\ padInstance' = [padInstance EXCEPT ![p] = -1]
  /\ padButtons' = [padButtons EXCEPT ![p] = {}]
  /\ padAxis' = [padAxis EXCEPT ![p] = 0]
  /\ eventQueue' = Append(eventQueue, Event("SDL_CONTROLLERDEVICEREMOVED", padInstance[p], 0, 0))
  /\ Polled
  /\ UNCHANGED <<sdlKeys, sdlMouseButtons, sdlMouseX, sdlMouseY, nextInstance, openable,
                 bindVars, btVars, dgVars>>

PadButton(p, b) ==
  /\ p \in Connected
  /\ padButtons' = [padButtons EXCEPT ![p] = IF b \in @ THEN @ \ {b} ELSE @ \cup {b}]
  /\ Polled
  /\ UNCHANGED <<sdlKeys, sdlMouseButtons, sdlMouseX, sdlMouseY, joysticks, padInstance,
                 nextInstance, openable, padAxis, eventQueue, bindVars, btVars, dgVars>>

PadAxisMove(p, raw) ==
  /\ p \in Connected
  /\ padAxis[p] # raw
  /\ padAxis' = [padAxis EXCEPT ![p] = raw]
  /\ Polled
  /\ UNCHANGED <<sdlKeys, sdlMouseButtons, sdlMouseX, sdlMouseY, joysticks, padInstance,
                 nextInstance, openable, padButtons, eventQueue, bindVars, btVars, dgVars>>

\* whether SDL_GameControllerOpen succeeds on a controller changes (the device node is
\* not ready yet, is busy, becomes accessible)
OpenChange(p) ==
  /\ openable' = IF p \in openable THEN openable \ {p} ELSE openable \cup {p}
  /\ Polled
  /\ UNCHANGED <<sdlKeys, sdlMouseButtons, sdlMouseX, sdlMouseY, joysticks, padInstance,
                 nextInstance, padButtons, padAxis, eventQueue, bindVars, btVars, dgVars>>

\* the user closes the window (SDL_QUIT) or resizes it (SDL_WINDOWEVENT)
WindowRequest(type) ==
  /\ Len(eventQueue) < MaxQueue
  /\ eventQueue' = Append(eventQueue, Event(type, 0, 0, 0))
  /\ Polled
  /\ UNCHANGED <<sdlKeys, sdlMouseButtons, sdlMouseX, sdlMouseY, padVars, bindVars, btVars,
                 dgVars>>

\* the mouse moves to (x, y): the motion event carries the position and the distance
\* moved since the motion event before
MouseMove(x, y) ==
  /\ Len(eventQueue) < MaxQueue
  /\ <<x, y>> # <<sdlMouseX, sdlMouseY>>
  /\ sdlMouseX' = x
  /\ sdlMouseY' = y
  /\ eventQueue' = Append(eventQueue, MotionEvent(x, y, x - sdlMouseX, y - sdlMouseY))
  /\ Polled
  /\ UNCHANGED <<sdlKeys, sdlMouseButtons, padVars, bindVars, btVars, dgVars>>

\* an input event that changes nothing the managers sample: the repeat of a held key,
\* a controller button or axis other than the modelled ones
InputEvent(type, which) ==
  /\ Len(eventQueue) < MaxQueue
  /\ eventQueue' = Append(eventQueue, Event(type, which, 0, 0))
  /\ Polled
  /\ UNCHANGED <<sdlKeys, sdlMouseButtons, sdlMouseX, sdlMouseY, padVars, bindVars, btVars,
                 dgVars>>

Finger(type, id, x, y) ==
  /\ Len(eventQueue) < MaxQueue
  /\ eventQueue' = Append(eventQueue, Event(type, id, x, y))
  /\ Polled
  /\ UNCHANGED <<sdlKeys, sdlMouseButtons, sdlMouseX, sdlMouseY, padVars, bindVars, btVars,
                 dgVars>>

(***************************************************************************)
(* Initial states: the platform at program start and both managers right   *)
(* after construction.                                                     *)
(***************************************************************************)
InitPlatform(plugged) ==
  /\ sdlKeys = [sc \in Scancodes |-> FALSE]
  /\ sdlMouseButtons = 0
  /\ sdlMouseX = 0
  /\ sdlMouseY = 0
  /\ joysticks = plugged
  /\ padInstance = [p \in Pads |-> IF p \in {plugged[i] : i \in 1 .. Len(plugged)}
                                     THEN IndexOf(plugged, p) - 1 ELSE -1]
  /\ nextInstance = Len(plugged)
  /\ openable = Pads
  /\ padButtons = [p \in Pads |-> {}]
  /\ padAxis = [p \in Pads |-> 0]
  /\ eventQueue = <<>>

\* InputManager::InputManager(Game*)
InitBindingTable ==
  /\ initState = "constructed"
  /\ m_gameController = nullptr
  /\ m_gameControllerIndex = -1
  /\ m_activeInputMethod = "KEYBOARD"
  /\ m_currentKeyboardState = "nullptr"
  /\ m_previousKeyState = EmptyMap
  /\ m_keyCommands = EmptyMap
  /\ m_currentMouseState = 0
  /\ m_previousMouseState = 0
  /\ m_mouseX = 0
  /\ m_mouseY = 0
  /\ m_mouseDeltaX = 0
  /\ m_mouseDeltaY = 0
  /\ m_mouseCommands = EmptyMap
  /\ m_currentGamepadButtonState = EmptyMap
  /\ m_previousGamepadButtonState = EmptyMap
  /\ m_gamepadAxisValues = EmptyMap
  /\ m_gamepadButtonCommands = EmptyMap
  /\ m_gamepadAxisCommands = EmptyMap
  /\ m_touchPoints = <<>>
  /\ m_touchCommand = NoCommand

\* InputManager::InputManager() of the delegation manager; a unique_ptr is <<>> or <<object>>
InitDelegation ==
  /\ initialized = FALSE
  /\ isSteamDeckHardware = FALSE
  /\ keyboard = <<>>
  /\ mouse = <<>>
  /\ gamepad = <<>>
  /\ steamDeck = <<>>

InitObservation ==
  /\ calls = <<>>
  /\ steps = <<>>
  /\ initializeReturned = "none"
  /\ phase = "idle"
  /\ frames = 0
  /\ obsNow = NoObservation
  /\ obsPrev = NoObservation
  /\ snapNow = EmptyMap
  /\ snapPrev = EmptyMap
  /\ bindLog = <<>>
  /\ fingers = EmptyMap
  /\ openHandles = {}
  /\ quit = FALSE

\* one frame of the application: the event loop has drained the queue, then update runs
FrameUpdate == /\ eventQueue = <<>>
               /\ \E deltaTime \in DeltaTimes : InputManager_update(deltaTime)

(***************************************************************************)
(* Binding-table manager, keyboard frames.                                 *)
(***************************************************************************)
InitKeys == InitPlatform(<<>>) /\ InitBindingTable /\ InitDelegation /\ InitObservation
NextKeys ==
  \/ \E subsystemOk \in BOOLEAN : InputManager_init(subsystemOk)
  \/ \E sc \in MappedScancodes : KeyChange(sc)
  \/ InputManager_processEvent
  \/ FrameUpdate
SpecKeys == InitKeys /\ [][NextKeys]_vars

\* C1: with the frame order drain, update, query: a key that was up at the previous
\* update and is down at this one has isKeyPressed true after this update, and a key
\* down at both has isKeyPressed false.
C1_KeyPressedOnDownEdge ==
  (phase = "updated" /\ frames >= 2) =>
    \A sc \in MappedScancodes :
      /\ (~obsPrev.keys[sc] /\ obsNow.keys[sc]) => isKeyPressed(SDL_GetKeyFromScancode(sc))
      /\ (obsPrev.keys[sc] /\ obsNow.keys[sc]) => ~isKeyPressed(SDL_GetKeyFromScancode(sc))

(***************************************************************************)
(* Delegation manager: the device classes.  An object is a record of its   *)
(* fields; update operators return the object after update().              *)
(***************************************************************************)
SdlButtons == 0 .. (SDL_CONTROLLER_BUTTON_MAX - 1)
SdlAxes == 0 .. (SDL_CONTROLLER_AXIS_MAX - 1)

\* KeyboardInput::KeyboardInput()
NewKeyboardInput ==
  [keyboardState |-> "nullptr", previousKeyboardState |-> [sc \in Scancodes |-> FALSE]]
\* keyboardState = SDL_GetKeyboardState(..); memcpy(previousKeyboardState, keyboardState, ..)
KeyboardInput_update(k) ==
  [keyboardState |-> "sdlKeys", previousKeyboardState |-> [sc \in Scancodes |-> sdlKeys[sc]]]
KeyboardInput_isAvailable(k) == k.keyboardState # "nullptr"
KeyboardInput_isKeyPressed(k, key) == KeyboardInput_isAvailable(k) /\ sdlKeys[key]
KeyboardInput_isKeyJustPressed(k, key) ==
  KeyboardInput_isAvailable(k) /\ sdlKeys[key] /\ ~k.previousKeyboardState[key]

\* MouseInput::MouseInput()
NewMouseInput == [mouseX |-> 0, mouseY |-> 0, mouseState |-> 0, previousMouseState |-> 0]
MouseInput_update(m) ==
  [mouseX |-> sdlMouseX, mouseY |-> sdlMouseY, mouseState |-> sdlMouseButtons,
   previousMouseState |-> m.mouseState]
MouseInput_isAvailable(m) == TRUE
MouseInput_isButtonPressed(m, button) == MouseInput_isAvailable(m) /\ MaskHas(m.mouseState, button)
MouseInput_isButtonJustPressed(m, button) ==
  /\ MouseInput_isAvailable(m)
  /\ MaskHas(m.mouseState, button)
  /\ ~MaskHas(m.previousMouseState, button)

\* GamepadInput::GamepadInput()
NewGamepadInput ==
  [controller |-> nullptr, controllerWasConnected |-> FALSE,
   previousButtonStates |-> [b \in SdlButtons |-> FALSE],
   currentButtonStates |-> [b \in SdlButtons |-> FALSE],
   axisValues |-> [a \in SdlAxes |-> 0]]
\* an update that never scans: the handle stays what it was
GamepadInput_scanNever(g) == g.controller
\* the handle after the rescan that runs while no controller is bound
GamepadInput_scan(g) ==
  IF g.controller # nullptr THEN g.controller
  ELSE IF OpeningIndices # {} THEN SDL_GameControllerOpen(FirstOpening)
  ELSE nullptr
GamepadInput_update(g) ==
  LET c == GamepadInput_scan(g) IN
  IF c = nullptr
    THEN [g EXCEPT !.previousButtonStates = g.currentButtonStates, !.controller = nullptr]
  ELSE IF ~SDL_GameControllerGetAttached(c)
    THEN [g EXCEPT !.previousButtonStates = g.currentButtonStates,
                   !.controller = nullptr,
                   !.controllerWasConnected = FALSE]
  ELSE [controller |-> c,
        controllerWasConnected |-> TRUE,
        previousButtonStates |-> g.currentButtonStates,
        currentButtonStates |-> [b \in SdlButtons |-> SDL_GameControllerGetButton(c, b)],
        axisValues |-> [a \in SdlAxes |-> SDL_GameControllerGetAxis(c, a)]]
GamepadInput_isAvailable(g) == g.controller # nullptr
GamepadInput_isButtonPressed(g, button) ==
  IF ~GamepadInput_isAvailable(g) \/ button >= SDL_CONTROLLER_BUTTON_MAX THEN FALSE
  ELSE g.currentButtonStates[button]
GamepadInput_isButtonJustPressed(g, button) ==
  IF ~GamepadInput_isAvailable(g) \/ button >= SDL_CONTROLLER_BUTTON_MAX THEN FALSE
  ELSE g.currentButtonStates[button] /\ ~g.previousButtonStates[button]

\* constexpr float deadzone = 0.15f.  The float nearest 0.15 is 10066330 / 2^26; no reading
\* k / 32768 lies between 0.15 and that float, so comparing with 15/100 decides the same
\* readings.
AxisDeadzone == <<15, 100>>
\* static_cast<float>(raw) * (1.0f / 32768.0f)
AxisNormalized(raw) == <<raw, 32768>>
\* a shaping that compares the signed value with the deadzone
ShapeAxisSigned(raw) ==
  LET normalizedValue == AxisNormalized(raw) IN
  IF RatLT(normalizedValue, AxisDeadzone) THEN RatZero
  ELSE RatDiv(RatSub(normalizedValue, AxisDeadzone), RatSub(RatOne, AxisDeadzone))
\* a shaping that reports only the direction outside the deadzone
ShapeAxisDigital(raw) ==
  LET normalizedValue == AxisNormalized(raw) IN
  IF RatLT(RatAbs(normalizedValue), AxisDeadzone) THEN RatZero
  ELSE IF normalizedValue[1] > 0 THEN RatOne ELSE RatNeg(RatOne)
\* the value getAxisValue computes from a stored raw reading
ShapeAxis(raw) ==
  LET normalizedValue == AxisNormalized(raw) IN
  IF RatLT(RatAbs(normalizedValue), AxisDeadzone) THEN RatZero
  ELSE LET magnitude == RatDiv(RatSub(RatAbs(normalizedValue), AxisDeadzone),
                               RatSub(RatOne, AxisDeadzone))
       IN IF normalizedValue[1] > 0 THEN magnitude ELSE RatNeg(magnitude)
GamepadInput_getAxisValue(g, axis) ==
  IF ~GamepadInput_isAvailable(g) \/ axis >= SDL_CONTROLLER_AXIS_MAX THEN RatZero
  ELSE ShapeAxis(g.axisValues[axis])

\* SteamDeckInput::SteamDeckInput()
NewSteamDeckInput ==
  [gamepad |-> NewGamepadInput, hasGyro |-> TRUE,
   gyro |-> <<RatZero, RatZero, RatZero>>, accel |-> <<RatZero, RatZero, RatZero>>]
SteamDeckInput_update(d) == [d EXCEPT !.gamepad = GamepadInput_update(d.gamepad)]
SteamDeckInput_isAvailable(d) == GamepadInput_isAvailable(d.gamepad)
SteamDeckInput_getGyroData(d) == IF ~d.hasGyro THEN <<RatZero, RatZero, RatZero>> ELSE d.gyro
SteamDeckInput_getAccelerometerData(d) ==
  IF ~d.hasGyro THEN <<RatZero, RatZero, RatZero>> ELSE d.accel

(***************************************************************************)
(* Delegation manager: operations and queries.                             *)
(***************************************************************************)
\* initialize(): SDL_Init fails, or the devices are created; steamDeckEnv is getenv("SteamDeck") == "1"
Delegation_initialize(sdlInitOk, steamDeckEnv) ==
  /\ IF ~sdlInitOk
       THEN UNCHANGED dgVars
       ELSE /\ keyboard' = <<NewKeyboardInput>>
            /\ mouse' = <<NewMouseInput>>
            /\ gamepad' = <<NewGamepadInput>>
            /\ isSteamDeckHardware' = steamDeckEnv
            /\ steamDeck' = IF steamDeckEnv THEN <<NewSteamDeckInput>> ELSE steamDeck
            /\ initialized' = TRUE
  /\ phase' = IF sdlInitOk THEN "changed" ELSE phase
  /\ initializeReturned' = IF sdlInitOk THEN "true" ELSE "false"
  /\ UNCHANGED <<platformVars, bindVars, btVars, calls, steps, frames, obsNow, obsPrev, snapNow,
                 snapPrev, bindLog, fingers, openHandles, quit>>

HotplugEvent(e) == e.type \in {"SDL_CONTROLLERDEVICEADDED", "SDL_CONTROLLERDEVICEREMOVED"}
\* the gamepad object after the event drain of update()
GamepadAfterDrain ==
  IF gamepad # <<>> /\ \E i \in 1 .. Len(eventQueue) : HotplugEvent(eventQueue[i])
    THEN <<NewGamepadInput>>
    ELSE gamepad

Delegation_isSteamDeckAvailable == steamDeck # <<>> /\ SteamDeckInput_isAvailable(steamDeck[1])
Delegation_isGamepadAvailable == gamepad # <<>> /\ GamepadInput_isAvailable(gamepad[1])
Delegation_isKeyboardAvailable == keyboard # <<>> /\ KeyboardInput_isAvailable(keyboard[1])
Delegation_isMouseAvailable == mouse # <<>> /\ MouseInput_isAvailable(mouse[1])
Delegation_isKeyPressed(key) ==
  Delegation_isKeyboardAvailable /\ KeyboardInput_isKeyPressed(keyboard[1], key)
Delegation_isKeyJustPressed(key) ==
  Delegation_isKeyboardAvailable /\ KeyboardInput_isKeyJustPressed(keyboard[1], key)
Delegation_isMouseButtonPressed(button) ==
  Delegation_isMouseAvailable /\ MouseInput_isButtonPressed(mouse[1], button)
Delegation_isMouseButtonJustPressed(button) ==
  Delegation_isMouseAvailable /\ MouseInput_isButtonJustPressed(mouse[1], button)
Delegation_isGamepadButtonPressed(button) ==
  IF Delegation_isSteamDeckAvailable
    THEN GamepadInput_isButtonPressed(steamDeck[1].gamepad, button)
    ELSE Delegation_isGamepadAvailable /\ GamepadInput_isButtonPressed(gamepad[1], button)
Delegation_isGamepadButtonJustPressed(button) ==
  IF Delegation_isSteamDeckAvailable
    THEN GamepadInput_isButtonJustPressed(steamDeck[1].gamepad, button)
    ELSE Delegation_isGamepadAvailable /\ GamepadInput_isButtonJustPressed(gamepad[1], button)
Delegation_getGamepadAxisValue(axis) ==
  IF Delegation_isSteamDeckAvailable
    THEN GamepadInput_getAxisValue(steamDeck[1].gamepad, axis)
  ELSE IF Delegation_isGamepadAvailable THEN GamepadInput_getAxisValue(gamepad[1], axis)
  ELSE RatZero

\* a capability query that assumes the sensor is there
GyroAssumed == TRUE
\* hasSteamDeckGyroSupport(): steamDeck && steamDeck->hasGyroSupport()
Delegation_hasSteamDeckGyroSupport == steamDeck # <<>> /\ steamDeck[1].hasGyro
\* getSteamDeckGyroData / getSteamDeckAccelerometerData: the vector written to x, y, z
Delegation_getSteamDeckGyroData ==
  IF steamDeck # <<>> THEN SteamDeckInput_getGyroData(steamDeck[1])
  ELSE <<RatZero, RatZero, RatZero>>
Delegation_getSteamDeckAccelerometerData ==
  IF steamDeck # <<>> THEN SteamDeckInput_getAccelerometerData(steamDeck[1])
  ELSE <<RatZero, RatZero, RatZero>>

\* a position query that reads the platform's cursor
MousePositionLive == <<sdlMouseX, sdlMouseY>>
\* getMousePosition(x, y): the pair written to x and y
Delegation_getMousePosition ==
  IF Delegation_isMouseAvailable THEN <<mouse[1].mouseX, mouse[1].mouseY>> ELSE <<0, 0>>

\* the gamepad object the button and axis queries read
QueriedGamepad ==
  IF Delegation_isSteamDeckAvailable THEN <<steamDeck[1].gamepad>> ELSE gamepad

\* if (keyboard) keyboard->update(); if (mouse) mouse->update();
\* if (gamepad) gamepad->update(); if (steamDeck) steamDeck->update();
Delegation_updateSteps ==
  (IF keyboard # <<>> THEN <<"keyboard">> ELSE <<>>)
    \o (IF mouse # <<>> THEN <<"mouse">> ELSE <<>>)
    \o (IF GamepadAfterDrain # <<>> THEN <<"gamepad">> ELSE <<>>)
    \o (IF steamDeck # <<>> THEN <<"steamDeck">> ELSE <<>>)

\* update(): drain the event queue, then update keyboard, mouse, gamepad, steamDeck
Delegation_update ==
  /\ eventQueue' = <<>>
  /\ keyboard' = IF keyboard # <<>> THEN <<KeyboardInput_update(keyboard[1])>> ELSE keyboard
  /\ mouse' = IF mouse # <<>> THEN <<MouseInput_update(mouse[1])>> ELSE mouse
  /\ gamepad' = IF GamepadAfterDrain # <<>>
                  THEN <<GamepadInput_update(GamepadAfterDrain[1])>> ELSE gamepad
  /\ steamDeck' = IF steamDeck # <<>> THEN <<SteamDeckInput_update(steamDeck[1])>> ELSE steamDeck
  /\ steps' = Delegation_updateSteps
  /\ obsPrev' = obsNow
  /\ obsNow' = Observe(IF QueriedGamepad' = <<>> THEN nullptr ELSE QueriedGamepad'[1].controller)
  /\ snapPrev' = snapNow
  /\ snapNow' = IF QueriedGamepad' = <<>> THEN snapNow ELSE QueriedGamepad'[1].currentButtonStates
  /\ frames' = IF frames < 2 THEN frames + 1 ELSE 2
  /\ phase' = "updated"
  /\ UNCHANGED <<sdlKeys, sdlMouseButtons, sdlMouseX, sdlMouseY, padVars, bindVars, btVars,
                 initialized, isSteamDeckHardware, calls, initializeReturned, bindLog, fingers, openHandles,
                 quit>>

(***************************************************************************)
(* Delegation manager, keyboard frames.                                    *)
(***************************************************************************)
Initialize == /\ ~initialized
              /\ \E sdlInitOk \in BOOLEAN, steamDeckEnv \in BOOLEAN :
                   Delegation_initialize(sdlInitOk, steamDeckEnv)
NextDelegationKeys ==
  \/ Initialize
  \/ \E sc \in MappedScancodes : KeyChange(sc)
  \/ Delegation_update
SpecDelegationKeys == InitKeys /\ [][NextDelegationKeys]_vars

\* C2: after InputManager::update() of the delegation manager, isKeyJustPressed(k) is
\* true exactly when k is down at this update and was up at the preceding update.
C2_KeyJustPressedIffDownEdge ==
  (phase = "updated" /\ frames >= 2 /\ keyboard # <<>>) =>
    \A sc \in Scancodes :
      Delegation_isKeyJustPressed(sc) <=> (obsNow.keys[sc] /\ ~obsPrev.keys[sc])

(***************************************************************************)
(* Binding-table manager, controller hotplug and buttons.                  *)
(***************************************************************************)
InitPads ==
  /\ \E plugged \in {<<>>, <<"padA">>} : InitPlatform(plugged)
  /\ InitBindingTable /\ InitDelegation /\ InitObservation
Hotplug == \/ \E p \in Pads : PadAttach(p)
           \/ \E p \in Pads : PadDetach(p)
\* the user plays on padA; padB is plugged and unplugged with its inputs at rest
NextPads ==
  \/ \E subsystemOk \in BOOLEAN : InputManager_init(subsystemOk)
  \/ Hotplug
  \/ \E b \in PressableButtons : PadButton("padA", b)
  \/ \E raw \in {0, SINT16_MAX} : PadAxisMove("padA", raw)
  \/ InputManager_processEvent
  \/ eventQueue = <<>> /\ InputManager_update(16)
SpecPads == InitPads /\ [][NextPads]_vars

\* C3: the previous button snapshot held after an update equals the current button
\* snapshot held after the update before it, for every button, also when no
\* controller is open.
C3_PreviousIsLastCurrent ==
  frames >= 2 =>
    \A b \in GamepadButtons :
      MapGet(m_previousGamepadButtonState, b, FALSE) = MapGet(snapPrev, b, FALSE)

\* C5: while no gamepad handle is open, the button queries are false for every button
\* and the axis query is 0 for every axis.
C5_NeutralWithoutHandle ==
  m_gameController = nullptr =>
    /\ \A b \in GamepadButtons :
         ~isGamepadButtonDown(b) /\ ~isGamepadButtonPressed(b) /\ ~isGamepadButtonReleased(b)
    /\ \A a \in GamepadAxes : RatEq(getGamepadAxisValue(a), RatZero)

(***************************************************************************)
(* Delegation manager, controller hotplug and buttons.                     *)
(***************************************************************************)
NextDelegationPads ==
  \/ Initialize
  \/ Hotplug
  \/ \E p \in Pads, b \in PressableButtons : PadButton(p, b)
  \/ Delegation_update
SpecDelegationPads == InitPads /\ [][NextDelegationPads]_vars

\* C4: the previous button snapshot used in a frame is the current snapshot computed
\* at the end of the frame before, also when an attach or detach event was drained at
\* the start of the frame; a button held across both updates is not just-pressed again.
C4_SnapshotSurvivesHotplug ==
  (frames >= 2 /\ QueriedGamepad # <<>>) =>
    /\ \A b \in SdlButtons :
         QueriedGamepad[1].previousButtonStates[b] = MapGet(snapPrev, b, FALSE)
    /\ \A b \in SdlButtons :
         (b \in obsPrev.buttons /\ b \in obsNow.buttons) => ~Delegation_isGamepadButtonJustPressed(b)

(***************************************************************************)
(* Binding-table manager, held inputs: one key, one mouse button and one   *)
(* controller button, each bound to a callback.                            *)
(***************************************************************************)
HeldScancode == CHOOSE sc \in MappedScancodes : \A other \in MappedScancodes : sc <= other
HeldKey == SDL_GetKeyFromScancode(HeldScancode)
HeldMouseButton == CHOOSE b \in MouseButtons : \A other \in MouseButtons : b <= other
\* the application binds one device in a run and the user works that device
NothingBound == /\ m_keyCommands = EmptyMap
                /\ m_mouseCommands = EmptyMap
                /\ m_gamepadButtonCommands = EmptyMap
NextHold ==
  \/ \E subsystemOk \in BOOLEAN : InputManager_init(subsystemOk)
  \/ NothingBound /\ bindKeyCommand(HeldKey, "c1")
  \/ NothingBound /\ bindMouseCommand(HeldMouseButton, "c1")
  \/ NothingBound /\ bindGamepadButtonCommand(GamepadButton_A, "c1")
  \/ HeldKey \in DOMAIN m_keyCommands /\ KeyChange(HeldScancode)
  \/ HeldMouseButton \in DOMAIN m_mouseCommands /\ MouseButtonChange(HeldMouseButton)
  \/ GamepadButton_A \in DOMAIN m_gamepadButtonCommands
       /\ PadButton("padA", SDL_CONTROLLER_BUTTON_A)
  \/ GamepadButton_A \in DOMAIN m_gamepadButtonCommands /\ PadAttach("padA")
  \/ GamepadButton_A \in DOMAIN m_gamepadButtonCommands /\ PadDetach("padA")
  \/ InputManager_processEvent
  \/ FrameUpdate
SpecHold == InitPads /\ [][NextHold]_vars

CallsFor(cat, id) == {i \in 1 .. Len(calls) : calls[i].cat = cat /\ calls[i].id = id}
Once(cat, id, down) ==
  /\ Cardinality(CallsFor(cat, id)) = IF down THEN 1 ELSE 0
  /\ \A i \in CallsFor(cat, id) : calls[i].payload = Seconds(obsNow.deltaTime)

\* C6: each update invokes the callback bound to a key, mouse button or controller
\* button exactly once with that update's deltaTime if the input is down at that
\* update, and not at all otherwise.
C6_OncePerFrameWhileDown ==
  phase = "updated" =>
    /\ \A k \in DOMAIN m_keyCommands :
         Once("KEYBOARD", k, obsNow.keys[SDL_GetScancodeFromKey(k)])
    /\ \A b \in DOMAIN m_mouseCommands : Once("MOUSE", b, MaskHas(obsNow.mouse, b))
    /\ \A b \in DOMAIN m_gamepadButtonCommands :
         Once("GAMEPAD", b, \E i \in obsNow.buttons : sdlButtonToGamepadButton(i) = b)

(***************************************************************************)
(* Binding-table manager, rebinding: the user holds two keys, a mouse      *)
(* button and controller button A and deflects the left stick slightly     *)
(* from program start on; a finger may touch the screen.  The application  *)
(* binds and rebinds commands between frames.                              *)
(***************************************************************************)
OtherScancode == CHOOSE sc \in MappedScancodes : \A other \in MappedScancodes : sc >= other
OtherKey == SDL_GetKeyFromScancode(OtherScancode)
InitRebind ==
  /\ sdlKeys = [sc \in Scancodes |-> sc \in {HeldScancode, OtherScancode}]
  /\ sdlMouseButtons = SDL_BUTTON(HeldMouseButton)
  /\ sdlMouseX = 0
  /\ sdlMouseY = 0
  /\ joysticks = <<"padA">>
  /\ padInstance = [p \in Pads |-> IF p = "padA" THEN 0 ELSE -1]
  /\ nextInstance = 1
  /\ openable = Pads
  /\ padButtons = [p \in Pads |-> IF p = "padA" THEN {SDL_CONTROLLER_BUTTON_A} ELSE {}]
  \* a deflection of about 0.12: above a deadzone of 0, below the default 0.25
  /\ padAxis = [p \in Pads |-> IF p = "padA" THEN 4000 ELSE 0]
  /\ eventQueue = <<>>
  /\ InitBindingTable /\ InitDelegation /\ InitObservation
\* the application rebinds one identifier and at most one other in a run
Identifiers == {<<bindLog[i].cat, bindLog[i].id>> : i \in 1 .. Len(bindLog)}
Rebinding(cat, id) == Cardinality(Identifiers \cup {<<cat, id>>}) <= 2
NextRebind ==
  \/ InputManager_init(TRUE)
  \/ \E key \in {HeldKey, OtherKey}, command \in Callbacks :
       Rebinding("KEYBOARD", key) /\ bindKeyCommand(key, command)
  \/ \E command \in Callbacks :
       Rebinding("MOUSE", HeldMouseButton) /\ bindMouseCommand(HeldMouseButton, command)
  \/ \E command \in Callbacks :
       /\ Rebinding("GAMEPAD", GamepadButton_A)
       /\ bindGamepadButtonCommand(GamepadButton_A, command)
  \/ \E command \in Callbacks, deadzone \in Deadzones :
       /\ Rebinding("AXIS", GamepadAxis_LEFTX)
       /\ bindGamepadAxisCommand(GamepadAxis_LEFTX, command, deadzone)
  \/ \E command \in Callbacks : Rebinding("TOUCHSCREEN", 0) /\ bindTouchCommand(command)
  \/ /\ m_touchCommand # NoCommand /\ m_touchPoints = <<>> /\ eventQueue = <<>>
     /\ Finger("SDL_FINGERDOWN", <<0, 1>>, 0, 0)
  \/ InputManager_processEvent
  \/ eventQueue = <<>> /\ InputManager_update(16)
SpecRebind == InitRebind /\ [][NextRebind]_vars

BindsOf(cat, id) == {i \in 1 .. Len(bindLog) : bindLog[i].cat = cat /\ bindLog[i].id = id}
LastBind(cat, id) ==
  bindLog[CHOOSE i \in BindsOf(cat, id) : \A j \in BindsOf(cat, id) : j <= i]
\* the input of a binding is active at the latest update
ActiveAtUpdate(cat, id, deadzone) ==
  CASE cat = "KEYBOARD" -> obsNow.keys[SDL_GetScancodeFromKey(id)]
    [] cat = "MOUSE" -> MaskHas(obsNow.mouse, id)
    [] cat = "GAMEPAD" -> \E i \in obsNow.buttons : sdlButtonToGamepadButton(i) = id
    [] cat = "AXIS" -> /\ id = GamepadAxis_LEFTX
                       /\ Abs(obsNow.axis) * deadzone[2] > deadzone[1] * SINT16_MAX
    [] OTHER -> m_touchPoints # <<>>

\* C7: once an identifier was bound more than once, an update invokes for it only the
\* callback bound last (for an axis: under the deadzone bound last), whatever other
\* identifiers were bound in between.
C7_LastBindWins ==
  phase = "updated" =>
    /\ \A i \in 1 .. Len(calls) :
         /\ BindsOf(calls[i].cat, calls[i].id) # {}
         /\ calls[i].cb = LastBind(calls[i].cat, calls[i].id).cb
    /\ \A n \in 1 .. Len(bindLog) :
         LET last == LastBind(bindLog[n].cat, bindLog[n].id) IN
         Cardinality(CallsFor(last.cat, last.id)) =
           IF ActiveAtUpdate(last.cat, last.id, last.deadzone) THEN 1 ELSE 0

\* an identifier bound twice to different callbacks with another identifier bound in
\* between, and the update has invoked its second callback
C7_Witness ==
  /\ phase = "updated"
  /\ \E i, j, k \in 1 .. Len(bindLog) :
       /\ i < k /\ k < j
       /\ bindLog[i].cat = bindLog[j].cat /\ bindLog[i].id = bindLog[j].id
       /\ bindLog[i].cb # bindLog[j].cb
       /\ <<bindLog[k].cat, bindLog[k].id>> # <<bindLog[i].cat, bindLog[i].id>>
       /\ \E c \in CallsFor(bindLog[j].cat, bindLog[j].id) : calls[c].cb = bindLog[j].cb

(***************************************************************************)
(* Binding-table manager, analog axes: one controller is plugged in, the   *)
(* application binds the left stick and the user moves it between frames.  *)
(***************************************************************************)
InitAxes == InitPlatform(<<"padA">>) /\ InitBindingTable /\ InitDelegation /\ InitObservation
NextAxes ==
  \/ \E subsystemOk \in BOOLEAN : InputManager_init(subsystemOk)
  \/ \E deadzone \in Deadzones :
       /\ m_gamepadAxisCommands = EmptyMap
       /\ bindGamepadAxisCommand(GamepadAxis_LEFTX, "c1", deadzone)
  \/ \E raw \in AxisSamples : PadAxisMove("padA", raw)
  \/ FrameUpdate
SpecAxes == InitAxes /\ [][NextAxes]_vars

\* sign(v) * max(0, |v| - d) / (1 - d), for d < 1
Shaped(v, d) ==
  LET over == RatSub(RatAbs(v), d)
      magnitude == IF over[1] > 0 THEN RatDiv(over, RatSub(RatOne, d)) ELSE RatZero
  IN IF v[1] < 0 THEN RatNeg(magnitude) ELSE magnitude

\* C8: for every bound axis with deadzone d and normalized reading v, an update invokes
\* the axis callback iff the magnitude of Shaped(v, d) exceeds d, and passes Shaped(v, d).
C8_AxisPayloadIsShaped ==
  phase = "updated" =>
    \A axis \in DOMAIN m_gamepadAxisCommands :
      LET d == m_gamepadAxisCommands[axis][2]
          shapedValue == Shaped(getGamepadAxisValue(axis), d)
      IN /\ (CallsFor("AXIS", axis) # {}) <=> RatGT(RatAbs(shapedValue), d)
         /\ \A i \in CallsFor("AXIS", axis) : RatEq(calls[i].payload, shapedValue)

DeadzoneBreak == (AxisDeadzone[1] * (-SINT16_MIN)) \div AxisDeadzone[2]
Near(r, point) == Abs(r - point) <= MaxWindow
RawReadings ==
  {r \in SINT16_MIN .. SINT16_MAX :
     \/ r % 4096 = 0
     \/ Near(r, 0) \/ Near(Abs(r), DeadzoneBreak) \/ Near(Abs(r), SINT16_MAX)}
InitShape ==
  /\ InitPlatform(<<"padA">>) /\ InitBindingTable /\ InitDelegation /\ InitObservation
NextShape ==
  \/ Initialize
  \/ \E raw \in RawReadings : frames = 0 /\ PadAxisMove("padA", raw)
  \/ Delegation_update
SpecShape == InitShape /\ [][NextShape]_vars

\* the gamepad objects the manager holds
GamepadObjects ==
  {gamepad[i] : i \in DOMAIN gamepad} \cup {steamDeck[i].gamepad : i \in DOMAIN steamDeck}

\* C10: getAxisValue returns exactly 0 for every stored raw reading whose normalized
\* magnitude |raw| / 32768 is at most 0.15, and a non-zero value with the sign of the
\* reading for every raw reading whose normalized magnitude is above 0.15.
C10_DeadzoneThenSignedNonZero ==
  \A g \in GamepadObjects : \A axis \in SdlAxes :
    GamepadInput_isAvailable(g) =>
      LET raw == g.axisValues[axis]
          value == GamepadInput_getAxisValue(g, axis)
      IN IF Abs(raw) * AxisDeadzone[2] <= AxisDeadzone[1] * (-SINT16_MIN)
           THEN value = RatZero
           ELSE /\ value[1] # 0
                /\ (value[1] > 0) <=> (raw > 0)

\* an open controller whose stored reading is the first one below the negative deadzone
\* boundary, read back as a negative value
C10_Witness ==
  /\ phase = "updated"
  /\ \E g \in GamepadObjects :
       /\ GamepadInput_isAvailable(g)
       /\ g.axisValues[SDL_CONTROLLER_AXIS_LEFTX] = -(DeadzoneBreak + 1)
       /\ GamepadInput_getAxisValue(g, SDL_CONTROLLER_AXIS_LEFTX)[1] < 0


\* C11: getAxisValue fills the full unit range: the result lies in [-1, 1] for every
\* stored raw reading, raw 32767 yields exactly 1 and raw -32768 yields exactly -1.
C11_FullUnitRange ==
  \A g \in GamepadObjects : \A axis \in SdlAxes :
    GamepadInput_isAvailable(g) =>
      LET raw == g.axisValues[axis]
          value == GamepadInput_getAxisValue(g, axis)
      IN /\ RatLE(RatNeg(RatOne), value) /\ RatLE(value, RatOne)
         /\ raw = SINT16_MAX => RatEq(value, RatOne)
         /\ raw = SINT16_MIN => RatEq(value, RatNeg(RatOne))


(***************************************************************************)
(* Binding-table manager, touch: fingers go down, move and lift; two of    *)
(* the platform's finger ids differ only above the low 32 bits.            *)
(***************************************************************************)
FingerIds == {<<0, 1>>, <<0, 3>>, <<1, 3>>}
Positions == {<<10, 20>>, <<12, 22>>}
NextTouch ==
  \/ InputManager_init(TRUE)
  \/ \E type \in {"SDL_FINGERDOWN", "SDL_FINGERMOTION", "SDL_FINGERUP"},
        id \in FingerIds, at \in Positions : Finger(type, id, at[1], at[2])
  \/ InputManager_processEvent
  \/ eventQueue = <<>> /\ InputManager_update(16)
SpecTouch == InitKeys /\ [][NextTouch]_vars

\* C12: getTouchPoints() holds exactly the finger ids whose latest down event was not
\* followed by an up event, each at the position of its latest down or motion event.
C12_TouchPointsFollowEvents ==
  /\ \A f \in DOMAIN fingers :
       \E i \in 1 .. Len(getTouchPoints) :
         /\ getTouchPoints[i].id = FingerIdToInt(f)
         /\ <<getTouchPoints[i].x, getTouchPoints[i].y>> = fingers[f]
  /\ Len(getTouchPoints) = Cardinality(DOMAIN fingers)

\* C13: no two entries of the touch-point list have the same id.
C13_TouchIdsDistinct ==
  \A i, j \in 1 .. Len(m_touchPoints) :
    m_touchPoints[i].id = m_touchPoints[j].id => i = j

\* three fingers are down, two of them with the same id after the cast: the second
\* finger-down for that id found it present, and the list holds two points
C13_Witness ==
  /\ Cardinality(DOMAIN fingers) = 3
  /\ Len(m_touchPoints) = 2


\* the button is held on the controller pad
HeldOn(pad, button) == \E i \in padButtons[pad] : sdlButtonToGamepadButton(i) = button

\* C14: once init() has succeeded, whenever the events of a detach of the active gamepad
\* and of the attach of another one have been handled, the handle is open on a connected
\* device and the update and the button queries read that device.
C14_HotplugContinuity ==
  (initState = "ok" /\ phase = "updated" /\ Connected # {}) =>
    /\ m_gameController # nullptr
    /\ SDL_GameControllerGetAttached(m_gameController)
    /\ \A b \in GamepadButtons \ {GamepadButton_NONE} :
         isGamepadButtonDown(b) <=> HeldOn(HandlePad(m_gameController), b)


\* C15: once every pending event has been handled, a non-null gamepad handle refers to a
\* device that is still connected, so no update or query uses the handle of a detached
\* device.
C15_HandleIsLive ==
  (eventQueue = <<>> /\ m_gameController # nullptr) =>
    SDL_GameControllerGetAttached(m_gameController)


\* C16: when an update returns and a controller that opens is connected, every
\* GamepadInput is available and holds the buttons of a connected controller, also
\* when that update found its bound controller detached.
C16_RescanInSameUpdate ==
  (phase = "updated" /\ OpeningIndices # {}) =>
    \A g \in GamepadObjects :
      /\ GamepadInput_isAvailable(g)
      /\ SDL_GameControllerGetAttached(g.controller)
      /\ \A b \in SdlButtons :
           GamepadInput_isButtonPressed(g, b) <=> SDL_GameControllerGetButton(g.controller, b)


(***************************************************************************)
(* Binding-table manager, an open that fails: a controller is plugged in   *)
(* while it cannot be opened and becomes openable later.  The application  *)
(* hands every event to processEvent and calls update every frame.         *)
(***************************************************************************)
NextRace ==
  \/ InputManager_init(TRUE)
  \/ OpenChange("padA")
  \/ PadAttach("padA")
  \/ PadDetach("padA")
  \/ PadButton("padA", SDL_CONTROLLER_BUTTON_A)
  \/ InputManager_processEvent
  \/ FrameUpdate
SpecRace == InitKeys /\ [][NextRace]_vars
SpecRaceFair == SpecRace /\ WF_vars(InputManager_processEvent) /\ WF_vars(FrameUpdate)

\* no handle is open after the open attempt of an attach event failed (the event's
\* device index was stored), the events are drained and the device now opens
OpenFailedAndRetryPossible ==
  /\ initState = "ok"
  /\ m_gameController = nullptr
  /\ m_gameControllerIndex # -1
  /\ eventQueue = <<>>
  /\ OpeningIndices # {}

\* C17: after a failed open on an attach event, if the device stays connected and
\* openable and no further event arrives, a later frame opens it.
C17_FailedOpenIsRetried ==
  OpenFailedAndRetryPossible ~>
    (m_gameController # nullptr \/ OpeningIndices = {} \/ eventQueue # <<>>)


(***************************************************************************)
(* Delegation manager and the application's own event loop: main polls the *)
(* platform queue for quit, key and window events; update() polls the same *)
(* queue.                                                                  *)
(***************************************************************************)
\* one iteration of main's "while (SDL_PollEvent(&e) != 0)": SDL_QUIT sets quit; the key
\* and window branches change only the display and the player rectangle
MainPollEvent ==
  /\ ~quit
  /\ eventQueue # <<>>
  /\ eventQueue' = Tail(eventQueue)
  /\ quit' = (Head(eventQueue).type = "SDL_QUIT")
  /\ phase' = "changed"
  /\ UNCHANGED <<sdlKeys, sdlMouseButtons, sdlMouseX, sdlMouseY, padVars, bindVars, btVars,
                 dgVars, calls, steps, initializeReturned, frames, obsNow, obsPrev, snapNow, snapPrev, bindLog, fingers,
                 openHandles>>
NextEvents ==
  \/ Initialize
  \/ \E sc \in MappedScancodes : KeyChange(sc)
  \/ \E type \in {"SDL_QUIT", "SDL_WINDOWEVENT"} : WindowRequest(type)
  \/ PadAttach("padA")
  \/ MainPollEvent
  \/ ~quit /\ Delegation_update
SpecEvents == InitKeys /\ [][NextEvents]_vars

\* the events update() leaves for the application: all but controller attach and detach
RECURSIVE Forwarded(_)
Forwarded(queue) ==
  IF queue = <<>> THEN <<>>
  ELSE IF HotplugEvent(Head(queue)) THEN Forwarded(Tail(queue))
  ELSE <<Head(queue)>> \o Forwarded(Tail(queue))

\* C18: update() consumes only controller attach and detach events: every other event
\* that was in the queue when it was called is still in the queue for the application's
\* event loop when it returns.
C18_OtherEventsForwarded ==
  [][Delegation_update => eventQueue' = Forwarded(eventQueue)]_vars


(***************************************************************************)
(* Binding-table manager, init() fails: the caller goes on with keyboard   *)
(* and mouse and keeps calling update every frame.                         *)
(***************************************************************************)
NextFailedInit ==
  \/ \E subsystemOk \in BOOLEAN : InputManager_init(subsystemOk)
  \/ initState # "fault" /\ KeyChange(HeldScancode)
  \/ initState # "fault" /\ InputManager_processEvent
  \/ eventQueue = <<>> /\ InputManager_update(16)
  \/ eventQueue = <<>> /\ InputManager_updateUnset(16)
SpecFailedInit == InitKeys /\ [][NextFailedInit]_vars

\* C19: after init() returned false the caller can go on: no update reaches an error
\* state or reads through the unset key-state pointer, and the gamepad queries return
\* neutral values.
C19_FailedInitStaysUsable ==
  /\ initState # "fault"
  /\ phase = "updated" => m_currentKeyboardState # "nullptr"
  /\ initState = "failed" =>
       /\ \A b \in GamepadButtons :
            ~isGamepadButtonDown(b) /\ ~isGamepadButtonPressed(b) /\ ~isGamepadButtonReleased(b)
       /\ \A a \in GamepadAxes : RatEq(getGamepadAxisValue(a), RatZero)


(***************************************************************************)
(* Delegation manager, queries with identifiers outside the arrays.        *)
(***************************************************************************)
\* the indices of currentButtonStates / previousButtonStates that isButtonPressed and
\* isButtonJustPressed read for an identifier: the only test before the array access
\* is button >= SDL_CONTROLLER_BUTTON_MAX
GamepadInput_buttonElementsRead(g, button) ==
  IF ~GamepadInput_isAvailable(g) \/ button >= SDL_CONTROLLER_BUTTON_MAX THEN {}
  ELSE {button}
\* the indices of axisValues that getAxisValue reads for an identifier
GamepadInput_axisElementsRead(g, axis) ==
  IF ~GamepadInput_isAvailable(g) \/ axis >= SDL_CONTROLLER_AXIS_MAX THEN {}
  ELSE {axis}
\* InputManager::isGamepadButtonPressed / isGamepadButtonJustPressed
Delegation_buttonElementsRead(button) ==
  IF Delegation_isSteamDeckAvailable
    THEN GamepadInput_buttonElementsRead(steamDeck[1].gamepad, button)
  ELSE IF Delegation_isGamepadAvailable
    THEN GamepadInput_buttonElementsRead(gamepad[1], button)
  ELSE {}
\* InputManager::getGamepadAxisValue
Delegation_axisElementsRead(axis) ==
  IF Delegation_isSteamDeckAvailable
    THEN GamepadInput_axisElementsRead(steamDeck[1].gamepad, axis)
  ELSE IF Delegation_isGamepadAvailable
    THEN GamepadInput_axisElementsRead(gamepad[1], axis)
  ELSE {}
\* identifiers outside the arrays: SDL_CONTROLLER_BUTTON_INVALID and
\* SDL_CONTROLLER_AXIS_INVALID (-1), the maximum, and a value above it
UnknownButtons == {-1, SDL_CONTROLLER_BUTTON_MAX, SDL_CONTROLLER_BUTTON_MAX + 1}
UnknownAxes == {-1, SDL_CONTROLLER_AXIS_MAX, SDL_CONTROLLER_AXIS_MAX + 1}

\* C20: for every button or axis identifier outside the valid range (-1, the maximum
\* and above) the delegation manager's queries read no element outside the button and
\* axis arrays, the two button queries return false and the axis query returns 0.
C20_UnknownIdentifierIsNeutral ==
  /\ \A button \in UnknownButtons :
       /\ Delegation_buttonElementsRead(button) \subseteq SdlButtons
       /\ ~Delegation_isGamepadButtonPressed(button)
       /\ ~Delegation_isGamepadButtonJustPressed(button)
  /\ \A axis \in UnknownAxes :
       /\ Delegation_axisElementsRead(axis) \subseteq SdlAxes
       /\ RatEq(Delegation_getGamepadAxisValue(axis), RatZero)



\* C21: between two consecutive update(deltaTime) calls every query returns the same
\* value each time it is asked, whatever the platform pumps in between: a step other
\* than update changes no result of the key, mouse-button and gamepad-button queries.
C21_QueriesStableBetweenUpdates ==
  [][(initState = "ok" /\ frames >= 1 /\ phase' = "changed") =>
       /\ \A key \in Keycodes :
            /\ isKeyDown(key)' = isKeyDown(key)
            /\ isKeyPressed(key)' = isKeyPressed(key)
            /\ isKeyReleased(key)' = isKeyReleased(key)
       /\ \A button \in MouseButtons :
            /\ isMouseButtonDown(button)' = isMouseButtonDown(button)
            /\ isMouseButtonPressed(button)' = isMouseButtonPressed(button)
            /\ isMouseButtonReleased(button)' = isMouseButtonReleased(button)
       /\ \A button \in GamepadButtons :
            /\ isGamepadButtonDown(button)' = isGamepadButtonDown(button)
            /\ isGamepadButtonPressed(button)' = isGamepadButtonPressed(button)
            /\ isGamepadButtonReleased(button)' = isGamepadButtonReleased(button)]_vars



(***************************************************************************)
(* Mouse buttons, either manager: the application sets up one of the two   *)
(* managers and calls its update every frame while the user clicks.        *)
(***************************************************************************)
NextMouse ==
  \/ ~initialized /\ InputManager_init(TRUE)
  \/ initState = "constructed" /\ Initialize
  \/ \E button \in MouseButtons : MouseButtonChange(button)
  \/ initState = "ok" /\ InputManager_processEvent
  \/ eventQueue = <<>> /\ InputManager_update(16)
  \/ initialized /\ Delegation_update
SpecMouse == InitKeys /\ [][NextMouse]_vars

\* C22: after an update, the edge query of a mouse button (isMouseButtonPressed in the
\* binding-table manager, isMouseButtonJustPressed in the delegation manager) is true
\* iff the button is down at this update and was up at the preceding one, and
\* isMouseButtonReleased is true iff it is up at this update and was down at the
\* preceding one; before the first update the previous state is up.
C22_MouseEdgesFollowUpdates ==
  phase = "updated" =>
    \A button \in MouseButtons :
      LET now == MaskHas(obsNow.mouse, button)
          before == MaskHas(obsPrev.mouse, button)
      IN /\ initState = "ok" =>
              /\ isMouseButtonPressed(button) <=> (now /\ ~before)
              /\ isMouseButtonReleased(button) <=> (~now /\ before)
         /\ initialized =>
              (Delegation_isMouseButtonJustPressed(button) <=> (now /\ ~before))

\* a button went down between two updates and the other one went up
C22_Witness ==
  /\ phase = "updated"
  /\ frames >= 2
  /\ \E down, up \in MouseButtons :
       /\ MaskHas(obsNow.mouse, down) /\ ~MaskHas(obsPrev.mouse, down)
       /\ ~MaskHas(obsNow.mouse, up) /\ MaskHas(obsPrev.mouse, up)
       /\ \/ isMouseButtonPressed(down) /\ isMouseButtonReleased(up)
          \/ Delegation_isMouseButtonJustPressed(down)



(***************************************************************************)
(* Binding-table manager, the active input method: the user holds a key, a *)
(* mouse button and controller button A and deflects the left stick; the   *)
(* application binds up to MaxBinds of the five categories in its setup    *)
(* order; events of every category arrive between frames.                  *)
(***************************************************************************)
MousePositions == {<<0, 0>>, <<5, 7>>}
InitMethod ==
  /\ sdlKeys = [sc \in Scancodes |-> sc = HeldScancode]
  /\ sdlMouseButtons = SDL_BUTTON(HeldMouseButton)
  /\ sdlMouseX = 0
  /\ sdlMouseY = 0
  /\ joysticks = <<"padA">>
  /\ padInstance = [p \in Pads |-> IF p = "padA" THEN 0 ELSE -1]
  /\ nextInstance = 1
  /\ openable = Pads
  /\ padButtons = [p \in Pads |-> IF p = "padA" THEN {SDL_CONTROLLER_BUTTON_A} ELSE {}]
  /\ padAxis = [p \in Pads |-> IF p = "padA" THEN SINT16_MAX ELSE 0]
  /\ eventQueue = <<>>
  /\ InitBindingTable /\ InitDelegation /\ InitObservation
NextMethod ==
  \/ InputManager_init(TRUE)
  \/ /\ m_keyCommands = EmptyMap /\ m_mouseCommands = EmptyMap
     /\ m_gamepadButtonCommands = EmptyMap /\ m_gamepadAxisCommands = EmptyMap
     /\ m_touchCommand = NoCommand
     /\ bindKeyCommand(HeldKey, "c1")
  \/ /\ m_mouseCommands = EmptyMap
     /\ m_gamepadButtonCommands = EmptyMap /\ m_gamepadAxisCommands = EmptyMap
     /\ m_touchCommand = NoCommand
     /\ bindMouseCommand(HeldMouseButton, "c1")
  \/ /\ m_gamepadButtonCommands = EmptyMap /\ m_gamepadAxisCommands = EmptyMap
     /\ m_touchCommand = NoCommand
     /\ bindGamepadButtonCommand(GamepadButton_A, "c1")
  \/ /\ m_gamepadAxisCommands = EmptyMap /\ m_touchCommand = NoCommand
     /\ bindGamepadAxisCommand(GamepadAxis_LEFTX, "c1", <<25, 100>>)
  \/ m_touchCommand = NoCommand /\ bindTouchCommand("c1")
  \/ \E type \in {"SDL_KEYDOWN", "SDL_CONTROLLERBUTTONUP", "SDL_CONTROLLERAXISMOTION"} :
       initState = "ok" /\ InputEvent(type, 0)
  \/ \E at \in MousePositions : initState = "ok" /\ MouseMove(at[1], at[2])
  \/ \E type \in {"SDL_FINGERDOWN", "SDL_FINGERUP"} :
       initState = "ok" /\ Finger(type, <<0, 1>>, 0, 0)
  \/ InputManager_processEvent
  \/ eventQueue = <<>> /\ InputManager_update(16)
SpecMethod == InitMethod /\ [][NextMethod]_vars

\* C23: after an update that dispatched bindings, getActiveInputMethod() is the device
\* category of the binding dispatched last (keyboard, mouse, gamepad for a button or an
\* axis, touchscreen); after processEvent on a key, mouse, controller-button,
\* controller-axis or finger event it is the category of that event.
C23_ActiveMethodIsLastDispatched ==
  [][/\ (phase' = "updated" /\ calls' # <<>>) =>
          LET last == calls'[Len(calls')]
          IN getActiveInputMethod' =
               CASE last.cat = "KEYBOARD" -> "KEYBOARD"
                 [] last.cat = "MOUSE" -> "MOUSE"
                 [] last.cat \in {"GAMEPAD", "AXIS"} -> "GAMEPAD"
                 [] last.cat = "TOUCHSCREEN" -> "TOUCHSCREEN"
     /\ InputManager_processEvent =>
          LET type == Head(eventQueue).type
          IN /\ type \in {"SDL_KEYDOWN", "SDL_KEYUP"} => getActiveInputMethod' = "KEYBOARD"
             /\ type \in {"SDL_MOUSEMOTION", "SDL_MOUSEBUTTONDOWN", "SDL_MOUSEBUTTONUP"} =>
                  getActiveInputMethod' = "MOUSE"
             /\ type \in {"SDL_CONTROLLERBUTTONDOWN", "SDL_CONTROLLERBUTTONUP",
                          "SDL_CONTROLLERAXISMOTION"} => getActiveInputMethod' = "GAMEPAD"
             /\ type \in {"SDL_FINGERDOWN", "SDL_FINGERUP", "SDL_FINGERMOTION"} =>
                  getActiveInputMethod' = "TOUCHSCREEN"]_vars

\* an update dispatched a key binding and then an axis binding, after a finger event had
\* made the touchscreen the active method: the method is the gamepad
C23_Witness ==
  /\ phase = "updated"
  /\ Len(calls) = 2
  /\ calls[1].cat = "KEYBOARD"
  /\ calls[2].cat = "AXIS"
  /\ fingers # EmptyMap
  /\ getActiveInputMethod = "GAMEPAD"



\* C24: after each update from the second on, getMouseDelta is the position
\* getMousePosition reports after this update minus the position it reported after the
\* preceding update; with no mouse motion between the two it is (0, 0).
C24_MouseDeltaIsFrameChange ==
  (initState = "ok" /\ phase = "updated" /\ frames >= 2) =>
    /\ getMousePosition = <<obsNow.x, obsNow.y>>
    /\ getMouseDelta = <<obsNow.x - obsPrev.x, obsNow.y - obsPrev.y>>



(***************************************************************************)
(* Binding-table manager, the life of the gamepad handle: init once,       *)
(* controllers plugged and unplugged, events, updates, and shutdown (which *)
(* the destructor runs again).                                             *)
(***************************************************************************)
NextLifetime ==
  \/ \E subsystemOk \in BOOLEAN : InputManager_init(subsystemOk)
  \/ Hotplug
  \/ initState # "constructed" /\ InputManager_processEvent
  \/ eventQueue = <<>> /\ InputManager_update(16)
  \/ initState # "constructed" /\ InputManager_shutdown
SpecLifetime == InitPads /\ [][NextLifetime]_vars

\* C25: every handle the manager opened is closed exactly once: the manager holds the
\* only open handle and holds no closed one; shutdown() leaves no handle open and a
\* second shutdown() closes nothing; the detach event of the device whose handle is open
\* closes that handle.
C25_HandleClosedExactlyOnce ==
  [][/\ openHandles' = {m_gameController'} \ {nullptr}
     /\ InputManager_shutdown =>
          /\ openHandles' = {}
          /\ openHandles \ openHandles' = {m_gameController} \ {nullptr}
     /\ (/\ InputManager_processEvent
         /\ Head(eventQueue).type = "SDL_CONTROLLERDEVICEREMOVED"
         /\ (Head(eventQueue).which + 1) \in openHandles) =>
          (Head(eventQueue).which + 1) \notin openHandles']_vars



(***************************************************************************)
(* The frame cycle of either manager: the application sets up one manager, *)
(* binds a key (binding-table manager), and runs frames while the user     *)
(* types and plugs a controller in.                                        *)
(***************************************************************************)
NextFrames ==
  \/ ~initialized /\ InputManager_init(TRUE)
  \/ initState = "constructed" /\ Initialize
  \/ initState = "ok" /\ NothingBound /\ bindKeyCommand(HeldKey, "c1")
  \/ KeyChange(HeldScancode)
  \/ PadAttach("padA")
  \/ initState = "ok" /\ InputManager_processEvent
  \/ eventQueue = <<>> /\ InputManager_update(16)
  \/ initialized /\ Delegation_update
SpecFrames == InitKeys /\ [][NextFrames]_vars

IsRefresh(step) == step # "callback"

C27_NoExtensionReadsZero ==
  (~initialized \/ ~isSteamDeckHardware) =>
    /\ ~Delegation_hasSteamDeckGyroSupport
    /\ Delegation_getSteamDeckGyroData = <<RatZero, RatZero, RatZero>>
    /\ Delegation_getSteamDeckAccelerometerData = <<RatZero, RatZero, RatZero>>

\* initialize() succeeded off the handheld and an update has run: the other devices
\* exist, the extension does not, and the capability query says no
C27_Witness ==
  /\ initialized
  /\ ~isSteamDeckHardware
  /\ phase = "updated"
  /\ keyboard # <<>>
  /\ ~Delegation_hasSteamDeckGyroSupport



\* the normalized magnitude |raw| / 32768 is above 0.15
OutsideDeadzone(raw) == Abs(raw) * AxisDeadzone[2] > AxisDeadzone[1] * (-SINT16_MIN)

\* C28: getAxisValue is strictly increasing in magnitude outside the deadzone: for the
\* stored reading r2 and every reading r1 of the same sign with
\* 0.15 < |r1| / 32768 < |r2| / 32768, the result for r1 is smaller in magnitude.
C28_StrictlyIncreasingOutsideDeadzone ==
  \A g \in GamepadObjects : \A axis \in SdlAxes :
    GamepadInput_isAvailable(g) =>
      LET r2 == g.axisValues[axis] IN
      \A r1 \in RawReadings :
        (OutsideDeadzone(r1) /\ Abs(r1) < Abs(r2) /\ (r1 > 0) = (r2 > 0)) =>
          RatLess(RatAbs(ShapeAxis(r1)), RatAbs(GamepadInput_getAxisValue(g, axis)))

\* the stored reading is two steps outside the negative deadzone boundary; the reading
\* between it and the boundary gives a smaller non-zero magnitude
C28_Witness ==
  /\ phase = "updated"
  /\ \E g \in GamepadObjects :
       /\ GamepadInput_isAvailable(g)
       /\ g.axisValues[SDL_CONTROLLER_AXIS_LEFTX] = -(DeadzoneBreak + 2)
       /\ OutsideDeadzone(-(DeadzoneBreak + 1))
       /\ RatLess(RatZero, RatAbs(ShapeAxis(-(DeadzoneBreak + 1))))
       /\ RatLess(RatAbs(ShapeAxis(-(DeadzoneBreak + 1))),
                RatAbs(GamepadInput_getAxisValue(g, SDL_CONTROLLER_AXIS_LEFTX)))



(***************************************************************************)
(* Binding-table manager, buttons the conversion never produces: the       *)
(* application binds commands to button A, to the first paddle and to      *)
(* NONE; the user presses A and the first paddle.                          *)
(***************************************************************************)
NextUnmapped ==
  \/ InputManager_init(TRUE)
  \/ \E button \in {GamepadButton_A, GamepadButton_PADDLE1, GamepadButton_NONE} :
       /\ button \notin DOMAIN m_gamepadButtonCommands
       /\ bindGamepadButtonCommand(button, "c1")
  \/ \E b \in PressableButtons : PadButton("padA", b)
  \/ InputManager_update(16)
SpecUnmapped == InitAxes /\ [][NextUnmapped]_vars

\* C29: for the buttons NONE, PADDLE1..PADDLE4 and TOUCHPAD, a bound command is never
\* invoked by an update and isGamepadButtonDown / Pressed / Released are false.
C29_UnmappedButtonsStayNeutral ==
  \A button \in GamepadButton_PADDLE1 .. GamepadButton_NONE :
    /\ CallsFor("GAMEPAD", button) = {}
    /\ ~isGamepadButtonDown(button)
    /\ ~isGamepadButtonPressed(button)
    /\ ~isGamepadButtonReleased(button)

\* a command is bound to the first paddle, bindGamepadButtonCommand having stored it,
\* and an update ran while the paddle was held on the open controller
C29_Witness ==
  /\ phase = "updated"
  /\ GamepadButton_PADDLE1 \in DOMAIN m_gamepadButtonCommands
  /\ m_gameController # nullptr
  /\ SDL_CONTROLLER_BUTTON_PADDLE1 \in obsNow.buttons
  /\ CallsFor("GAMEPAD", GamepadButton_PADDLE1) = {}



(***************************************************************************)
(* Delegation manager, before and without a successful initialize(): the   *)
(* user types, clicks, moves the mouse and holds a controller button; the  *)
(* application asks and calls update() all the same.                       *)
(***************************************************************************)
NextUninitialized ==
  \/ Initialize
  \/ KeyChange(HeldScancode)
  \/ MouseButtonChange(HeldMouseButton)
  \/ \E at \in MousePositions : MouseMove(at[1], at[2])
  \/ PadButton("padA", SDL_CONTROLLER_BUTTON_A)
  \/ Delegation_update
SpecUninitialized == InitAxes /\ [][NextUninitialized]_vars

\* C30: while the manager is uninitialized, that is before initialize() is called and
\* after it returned false, no device exists, every availability check is false, every
\* key, mouse-button and gamepad-button query is false, the axis query is 0,
\* getMousePosition writes (0, 0), and an update refreshed no device.
C30_UninitializedIsNeutral ==
  /\ initialized <=> initializeReturned = "true"
  /\ ~initialized =>
       /\ keyboard = <<>> /\ mouse = <<>> /\ gamepad = <<>> /\ steamDeck = <<>>
       /\ ~Delegation_isKeyboardAvailable /\ ~Delegation_isMouseAvailable
       /\ ~Delegation_isGamepadAvailable /\ ~Delegation_isSteamDeckAvailable
       /\ \A key \in Scancodes : ~Delegation_isKeyPressed(key) /\ ~Delegation_isKeyJustPressed(key)
       /\ \A button \in MouseButtons :
            ~Delegation_isMouseButtonPressed(button) /\ ~Delegation_isMouseButtonJustPressed(button)
       /\ \A button \in SdlButtons :
            /\ ~Delegation_isGamepadButtonPressed(button)
            /\ ~Delegation_isGamepadButtonJustPressed(button)
       /\ \A axis \in SdlAxes : Delegation_getGamepadAxisValue(axis) = RatZero
       /\ Delegation_getMousePosition = <<0, 0>>
       /\ phase = "updated" => steps = <<>>

\* initialize() returned false; the key, the mouse button and the controller button are
\* held and the mouse is away from the origin when an update runs
C30_Witness ==
  /\ initializeReturned = "false"
  /\ ~initialized
  /\ phase = "updated"
  /\ sdlKeys[HeldScancode]
  /\ MaskHas(sdlMouseButtons, HeldMouseButton)
  /\ SDL_CONTROLLER_BUTTON_A \in padButtons["padA"]
  /\ sdlMouseX # 0



(***************************************************************************)
(* Delegation manager, an open that fails: padA is plugged in at program   *)
(* start but cannot be opened yet; controllers become openable or busy,    *)
(* are plugged and unplugged; the application calls update every frame     *)
(* once initialize() has succeeded.                                        *)
(***************************************************************************)
InitRetry ==
  /\ sdlKeys = [sc \in Scancodes |-> FALSE]
  /\ sdlMouseButtons = 0
  /\ sdlMouseX = 0
  /\ sdlMouseY = 0
  /\ joysticks = <<"padA">>
  /\ padInstance = [p \in Pads |-> IF p = "padA" THEN 0 ELSE -1]
  /\ nextInstance = 1
  /\ openable = {}
  /\ padButtons = [p \in Pads |-> {}]
  /\ padAxis = [p \in Pads |-> 0]
  /\ eventQueue = <<>>
  /\ InitBindingTable /\ InitDelegation /\ InitObservation
NextRetry ==
  \/ Initialize
  \/ Hotplug
  \/ \E p \in Pads : OpenChange(p)
  \/ initialized /\ Delegation_update
SpecRetry == InitRetry /\ [][NextRetry]_vars
SpecRetryFair == SpecRetry /\ WF_vars(initialized /\ Delegation_update)

\* the handle of the connected controller with the lowest device index among those
\* that can be opened, nullptr when there is none
LowestOpenable ==
  LET opening == {i \in 1 .. Len(joysticks) : joysticks[i] \in openable} IN
  IF opening = {} THEN nullptr
  ELSE padInstance[joysticks[CHOOSE i \in opening : \A j \in opening : i <= j]] + 1

\* an update of a GamepadInput that holds no controller binds the lowest openable one
RescanBindsLowest ==
  (phase' = "updated" /\ initialized) =>
    /\ (GamepadAfterDrain # <<>> /\ GamepadAfterDrain[1].controller = nullptr)
         => (gamepad' # <<>> /\ gamepad'[1].controller = LowestOpenable)
    /\ (steamDeck # <<>> /\ steamDeck[1].gamepad.controller = nullptr)
         => (steamDeck' # <<>> /\ steamDeck'[1].gamepad.controller = LowestOpenable)

\* the gamepad is not available although a connected controller can be opened
GamepadMissing ==
  /\ initialized
  /\ ~Delegation_isGamepadAvailable
  /\ LowestOpenable # nullptr

\* C31: every update of a GamepadInput that holds no controller binds the connected
\* controller of lowest device index that opens; and whenever the gamepad is unavailable
\* while a connected controller can be opened, the gamepad becomes available at a later
\* update unless no controller can be opened any more.
C31_UnboundGamepadIsRetried ==
  /\ [][RescanBindsLowest]_vars
  /\ GamepadMissing ~> (Delegation_isGamepadAvailable \/ LowestOpenable = nullptr)

\* the update before the latest found padA connected and could not open it; padA stayed
\* connected (no controller was ever plugged in after program start) and the latest
\* update opened it
C31_Witness ==
  /\ phase = "updated"
  /\ frames = 2
  /\ ~obsPrev.open
  /\ nextInstance = 1
  /\ Delegation_isGamepadAvailable
  /\ gamepad[1].controller = padInstance["padA"] + 1



\* C32: in every state of the binding-table manager the stored controller index is -1
\* exactly when no gamepad handle is held, also after an attach event whose open attempt
\* failed and after shutdown().
C32_IndexTracksHandle ==
  (m_gameController = nullptr) <=> (m_gameControllerIndex = -1)



(***************************************************************************)
(* Binding-table manager, init() called more than once: the application    *)
(* calls init() again on a manager in use, between events, frames and      *)
(* shutdown().                                                             *)
(***************************************************************************)
NextReinit ==
  \/ \E subsystemOk \in BOOLEAN : InputManager_init(subsystemOk)
  \/ InputManager_initAgain
  \/ Hotplug
  \/ initState = "ok" /\ InputManager_processEvent
  \/ eventQueue = <<>> /\ InputManager_update(16)
  \/ initState # "constructed" /\ InputManager_shutdown
SpecReinit == InitPads /\ [][NextReinit]_vars

\* C33: at most one gamepad handle opened by the manager is open at any time, and every
\* open handle is the one the manager holds (none was overwritten while open).
C33_AtMostOneHandleOpen ==
  /\ Cardinality(openHandles) <= 1
  /\ openHandles \subseteq {m_gameController}



(***************************************************************************)
(* Binding-table manager, events that concern no state of the manager: a   *)
(* second controller comes and goes while the first is held, the window is *)
(* closed or resized.                                                      *)
(***************************************************************************)
NextIgnored ==
  \/ InputManager_init(TRUE)
  \/ Hotplug
  \/ \E type \in {"SDL_QUIT", "SDL_WINDOWEVENT"} : WindowRequest(type)
  \/ initState = "ok" /\ InputManager_processEvent
  \/ eventQueue = <<>> /\ InputManager_update(16)
SpecIgnored == InitPads /\ [][NextIgnored]_vars

\* the event types processEvent has a case for
ListedEventTypes ==
  {"SDL_KEYDOWN", "SDL_KEYUP", "SDL_MOUSEMOTION", "SDL_MOUSEBUTTONDOWN", "SDL_MOUSEBUTTONUP",
   "SDL_CONTROLLERDEVICEADDED", "SDL_CONTROLLERDEVICEREMOVED", "SDL_CONTROLLERBUTTONDOWN",
   "SDL_CONTROLLERBUTTONUP", "SDL_CONTROLLERAXISMOTION", "SDL_FINGERDOWN", "SDL_FINGERUP",
   "SDL_FINGERMOTION"}

\* C34: processEvent leaves the gamepad handle and the stored index unchanged on an attach
\* event received while a handle is held and on a detach event whose device id differs
\* from the stored index; on an event of a type it has no case for it changes no state
\* of the manager.
C34_IgnoredEventsChangeNothing ==
  [][InputManager_processEvent =>
       LET e == Head(eventQueue)
       IN /\ (e.type = "SDL_CONTROLLERDEVICEADDED" /\ m_gameController # nullptr) =>
               UNCHANGED <<m_gameController, m_gameControllerIndex, openHandles>>
          /\ (e.type = "SDL_CONTROLLERDEVICEREMOVED" /\ e.which # m_gameControllerIndex) =>
               UNCHANGED <<m_gameController, m_gameControllerIndex, openHandles>>
          /\ e.type \notin ListedEventTypes => UNCHANGED <<bindVars, btVars, openHandles>>]_vars

\* init() opened padA; padB was plugged in and unplugged again and both its events were
\* processed while padA's handle was held: the handle and the index are padA's still
C34_Witness ==
  /\ initState = "ok"
  /\ phase = "changed"
  /\ joysticks = <<"padA">>
  /\ padInstance["padA"] = 0
  /\ nextInstance = 2
  /\ eventQueue = <<>>
  /\ m_gameController = padInstance["padA"] + 1
  /\ m_gameControllerIndex = 0



\* the place of a callback's category in the dispatch order of update()
CategoryRank(cat) ==
  CASE cat = "KEYBOARD" -> 1
    [] cat = "MOUSE" -> 2
    [] cat = "GAMEPAD" -> 3
    [] cat = "AXIS" -> 4
    [] cat = "TOUCHSCREEN" -> 5

\* C35: the callbacks of one update are invoked by category in the order keyboard, mouse,
\* gamepad buttons, gamepad axes, touch; when bindings fired, getActiveInputMethod() after
\* the update is the method of the category latest in that order among those that fired.
C35_DispatchByCategoryOrder ==
  (initState = "ok" /\ phase = "updated") =>
    /\ \A i, j \in 1 .. Len(calls) :
         i < j => CategoryRank(calls[i].cat) <= CategoryRank(calls[j].cat)
    /\ \A i \in 1 .. Len(calls) :
         (\A j \in 1 .. Len(calls) : CategoryRank(calls[j].cat) <= CategoryRank(calls[i].cat))
           => getActiveInputMethod = InputMethodOf(calls[i])

\* a key, a mouse-button and the touch binding fired in one update: the method is the
\* touchscreen
C35_Witness ==
  /\ initState = "ok"
  /\ phase = "updated"
  /\ Len(calls) = 3
  /\ calls[1].cat = "KEYBOARD"
  /\ calls[2].cat = "MOUSE"
  /\ calls[3].cat = "TOUCHSCREEN"
  /\ getActiveInputMethod = "TOUCHSCREEN"



(***************************************************************************)
(* Binding-table manager, the touch command: one or two fingers are down,  *)
(* a key event arrives in between, the application binds the touch command *)
(* at some point and runs frames of different length.                      *)
(***************************************************************************)
NextTouchCommand ==
  \/ InputManager_init(TRUE)
  \/ m_touchCommand = NoCommand /\ bindTouchCommand("c1")
  \/ \E type \in {"SDL_FINGERDOWN", "SDL_FINGERUP"}, id \in {<<0, 1>>, <<0, 3>>} :
       initState = "ok" /\ Finger(type, id, 0, 0)
  \/ initState = "ok" /\ InputEvent("SDL_KEYDOWN", 0)
  \/ InputManager_processEvent
  \/ FrameUpdate
SpecTouchCommand == InitKeys /\ [][NextTouchCommand]_vars

\* the touch callbacks among the callbacks of the latest update
TouchDispatched == SelectSeq(calls, LAMBDA call : call.cat = "TOUCHSCREEN")

\* C36: an update invokes the touch command once, with deltaTime as payload, when a touch
\* command is bound and at least one touch point is active, and not at all otherwise,
\* however many points are active; an update with no touch command bound and no other
\* binding fired leaves getActiveInputMethod() as it was.
C36_TouchCommandOncePerUpdate ==
  /\ [](initState = "ok" /\ phase = "updated" =>
          TouchDispatched =
            IF m_touchCommand # NoCommand /\ Len(m_touchPoints) >= 1
              THEN <<Call("TOUCHSCREEN", 0, m_touchCommand, Seconds(obsNow.deltaTime))>>
              ELSE <<>>)
  /\ [][(phase' = "updated" /\ m_touchCommand = NoCommand) =>
          (calls' = <<>> /\ getActiveInputMethod' = getActiveInputMethod)]_vars

\* two touch points are active and the touch command is bound: the update invoked it once
C36_Witness ==
  /\ initState = "ok"
  /\ phase = "updated"
  /\ Len(m_touchPoints) = 2
  /\ m_touchCommand # NoCommand
  /\ Len(calls) = 1
  /\ calls[1].payload = Seconds(obsNow.deltaTime)
  /\ getActiveInputMethod = "TOUCHSCREEN"


(***************************************************************************)
(* Binding-table manager, what an update leaves alone: a key is bound and  *)
(* pressed now and then, a controller comes and goes, a finger goes down   *)
(* and lifts, frames run in between.                                       *)
(***************************************************************************)
NextQuiet ==
  \/ InputManager_init(TRUE)
  \/ NothingBound /\ bindKeyCommand(HeldKey, "c1")
  \/ KeyChange(HeldScancode)
  \/ PadAttach("padA")
  \/ PadDetach("padA")
  \/ \E type \in {"SDL_FINGERDOWN", "SDL_FINGERUP"} :
       initState = "ok" /\ Finger(type, <<0, 1>>, 0, 0)
  \/ initState = "ok" /\ InputManager_processEvent
  \/ InputManager_update(16)
SpecQuiet == InitPads /\ [][NextQuiet]_vars

\* C37: an update in which no binding fires leaves getActiveInputMethod() as it was, and
\* no update changes the touch-point list, the binding tables, the gamepad handle or the
\* stored index.
C37_UpdateLeavesRestAlone ==
  [][(phase' = "updated" /\ initState = "ok") =>
       /\ calls' = <<>> => getActiveInputMethod' = getActiveInputMethod
       /\ UNCHANGED <<m_touchPoints, bindVars, m_gameController, m_gameControllerIndex,
                      openHandles>>]_vars

\* an update ran with a key bound but not held, a finger down and the held controller
\* unplugged: nothing fired, the method is the touchscreen still and the handle is held
C37_Witness ==
  /\ initState = "ok"
  /\ phase = "updated"
  /\ calls = <<>>
  /\ m_keyCommands # EmptyMap
  /\ m_touchPoints # <<>>
  /\ m_gameController # nullptr
  /\ ~SDL_GameControllerGetAttached(m_gameController)
  /\ getActiveInputMethod = "TOUCHSCREEN"



\* the touch-point list holds an entry whose id is the event's finger id
FingerInList(points, fingerId) ==
  \E i \in 1 .. Len(points) : <<0, points[i].id>> = fingerId

\* C38: a finger-motion or finger-up event for a finger id that is not in the touch-point
\* list leaves the list unchanged; a finger-down for an id already in the list replaces
\* that entry in place and keeps the list's length and the order of the other entries.
C38_UnknownFingerLeavesList ==
  [][InputManager_processEvent =>
       LET e == Head(eventQueue)
       IN /\ (e.type \in {"SDL_FINGERMOTION", "SDL_FINGERUP"}
                /\ ~FingerInList(m_touchPoints, e.which)) => m_touchPoints' = m_touchPoints
          /\ (e.type = "SDL_FINGERDOWN" /\ FingerInList(m_touchPoints, e.which)) =>
               /\ Len(m_touchPoints') = Len(m_touchPoints)
               /\ \A i \in 1 .. Len(m_touchPoints) :
                    m_touchPoints'[i] =
                      IF <<0, m_touchPoints[i].id>> = e.which
                        THEN TouchPoint(m_touchPoints[i].id, e.x, e.y)
                        ELSE m_touchPoints[i]]_vars

====
